---- MODULE Spec2Model ----
(***************************************************************************)
(* A model of the transaction pipeline of the bank repository:             *)
(*   src/src/day4/model/transaction.py  Transaction and its status changes *)
(*   src/src/day4/model/queue.py        TransactionQueue (heap + id map)   *)
(*   src/src/day4/model/processor.py    TransactionProcessor               *)
(*   src/src/day5/model/audit.py        RiskAnalyzer and AuditLog          *)
(*   src/src/model/bank_account.py, src/src/day2/model/*.py  the accounts  *)
(*                                                                         *)
(* Time is counted in whole seconds.  `clock` is the wall clock read by    *)
(* datetime.now(); the `now` argument of pop_ready/process_next/run_all is *)
(* an input of the caller and is independent of the wall clock.            *)
(* Money is counted in whole units.  The time stamps created_at,           *)
(* updated_at and processed_at are written but never read by the modelled  *)
(* code and are left out.                                                  *)
(***************************************************************************)
EXTENDS Integers, Sequences, FiniteSets, TLC

\* ------------------------------------------------------------------ bounds
\* The `now` arguments and the scheduled times range over 0..MaxTime.
MaxTime == 2
\* The wall clock runs from 0 to MaxClock.
MaxClock == 1
\* The queue's sequence counter is capped: no push once it reached MaxSeq.
MaxSeq == 3
\* Priorities range over 0..MaxPriority.
MaxPriority == 1
\* A deposit made directly on an account does not raise its balance above
\* MaxBalance.
MaxBalance == 1100
\* Wrong passwords in a row are counted up to MaxStreak.
MaxStreak == 4
\* The risk analyzer is called directly at most MaxAssess times.
MaxAssess == 4

TxIds == {"t1", "t2"}
Times == 0 .. MaxTime
Priorities == 0 .. MaxPriority
\* Delays a caller passes to requeue directly.
Delays == {0, 1}
\* Reasons a caller passes to cancel.
CancelReasons == {"cancelled_by_user", "fraud_suspected"}

\* The ids of the bank's clients and the passwords they set and try.
ClientIds == {"c1", "c2"}
Passwords == {"pass", "nope"}

\* now=None: the callee reads the wall clock.
NoneTime == 0 - 1
NowArgs == Times \cup {NoneTime}

VARIABLES
    items,      \* TransactionQueue._items: tx_id -> Transaction
    heap,       \* TransactionQueue._heap: the set of _QueueItem entries
    order_seq,  \* TransactionQueue._order_seq
    clock,      \* datetime.now(timezone.utc), in seconds
    balance,    \* account id -> the account's _balance
    history,    \* RiskAnalyzer._history: sender id -> time stamps
    known_recipients, \* RiskAnalyzer._known_recipients
    assessed,   \* every call of RiskAnalyzer.assess made so far, in order
    records,    \* AuditLog.records
    error_log,  \* TransactionProcessor.error_log
    conf,       \* how the processor was constructed
    clients,    \* Bank.clients: client_id -> the Client's status and mark
    credentials,   \* Bank.credentials: client_id -> password
    failed_logins, \* Bank.failed_logins: client_id -> counter
    wrong_streak,  \* per client, the wrong passwords given in a row so far
    run,        \* the position of a run_all call in its loop
    ret         \* the last call: its name, arguments and result

queue_vars == <<items, heap, order_seq>>
proc_vars == <<balance, history, known_recipients, assessed, records,
               error_log>>
bank_vars == <<clients, credentials, failed_logins, wrong_streak>>
vars == <<items, heap, order_seq, clock, balance, history,
          known_recipients, assessed, records, error_log, conf, clients,
          credentials, failed_logins, wrong_streak, run, ret>>

\* --------------------------------------------------------------- accounts
\* The objects a transaction names as sender or recipient.  "A", "B", "P",
\* "F" (frozen), "C" (closed), "Q" (a premium account that charges a fee on
\* every withdraw), "E" (in EUR) and "S" (a savings account that opens 100
\* above its min_balance) are accounts of the repository; "X" is an
\* object that is no account (reading any attribute of it raises
\* AttributeError); "Y" looks like an active account, but its deposit and
\* withdraw raise an error of the collaborator that is none of the four
\* account errors.  "none" is None.
Account ==
    [A |-> [kind |-> "bank", currency |-> "RUB", status |-> "active",
            overdraft_limit |-> 0, withdraw_fee_fixed |-> 0, opening |-> 1000],
     B |-> [kind |-> "bank", currency |-> "USD", status |-> "active",
            overdraft_limit |-> 0, withdraw_fee_fixed |-> 0, opening |-> 0],
     P |-> [kind |-> "premium", currency |-> "RUB", status |-> "active",
            overdraft_limit |-> 100, withdraw_fee_fixed |-> 0, opening |-> 0],
     F |-> [kind |-> "bank", currency |-> "RUB", status |-> "frozen",
            overdraft_limit |-> 0, withdraw_fee_fixed |-> 0, opening |-> 100],
     C |-> [kind |-> "bank", currency |-> "RUB", status |-> "closed",
            overdraft_limit |-> 0, withdraw_fee_fixed |-> 0, opening |-> 0],
     Q |-> [kind |-> "premium", currency |-> "RUB", status |-> "active",
            overdraft_limit |-> 100, withdraw_fee_fixed |-> 5, opening |-> 0],
     E |-> [kind |-> "bank", currency |-> "EUR", status |-> "active",
            overdraft_limit |-> 0, withdraw_fee_fixed |-> 0, opening |-> 0],
     S |-> [kind |-> "savings", currency |-> "RUB", status |-> "active",
            overdraft_limit |-> 0, withdraw_fee_fixed |-> 0, opening |-> 300,
            min_balance |-> 200],
     X |-> [kind |-> "object", currency |-> "RUB", status |-> "active",
            overdraft_limit |-> 0, withdraw_fee_fixed |-> 0, opening |-> 0],
     Y |-> [kind |-> "failing", currency |-> "RUB", status |-> "active",
            overdraft_limit |-> 0, withdraw_fee_fixed |-> 0, opening |-> 1000]]

AccountIds == DOMAIN Account

\* An error raised: its class and the place that raised it; NoErr when the
\* call returned.
NoErr == <<>>
TerminalErrors == {"AccountFrozenError", "AccountClosedError",
                   "InsufficientFundsError", "InvalidOperationError"}

\* BankAccount._ensure_active
ensure_active(a) ==
    IF Account[a].status = "frozen"
    THEN <<"AccountFrozenError", "account">>
    ELSE IF Account[a].status = "closed"
    THEN <<"AccountClosedError", "account">>
    ELSE NoErr

\* An amount that float() does not accept ("abc", None).
NotANumber == 0 - 1000000

\* A faulty _validate_amount: an amount of zero is let through.
validate_amount_allows_zero(amount) ==
    IF amount = NotANumber
    THEN <<"InvalidOperationError", "account_not_a_number">>
    ELSE IF amount < 0 THEN <<"InvalidOperationError", "account_amount">>
    ELSE NoErr

\* BankAccount._validate_amount
validate_amount(amount) ==
    IF amount = NotANumber
    THEN <<"InvalidOperationError", "account_not_a_number">>
    ELSE IF amount <= 0 THEN <<"InvalidOperationError", "account_amount">>
    ELSE NoErr

\* BankAccount.deposit: the error raised and the balances left.
deposit(a, amount, bal) ==
    IF Account[a].kind = "failing"
    THEN [err |-> <<"RuntimeError", "deposit">>, bal |-> bal]
    ELSE IF ensure_active(a) # NoErr
    THEN [err |-> ensure_active(a), bal |-> bal]
    ELSE IF validate_amount(amount) # NoErr
    THEN [err |-> validate_amount(amount), bal |-> bal]
    ELSE [err |-> NoErr, bal |-> [bal EXCEPT ![a] = @ + amount]]

\* BankAccount.withdraw
bank_withdraw(a, amount, bal) ==
    IF ensure_active(a) # NoErr
    THEN [err |-> ensure_active(a), bal |-> bal]
    ELSE IF validate_amount(amount) # NoErr
    THEN [err |-> validate_amount(amount), bal |-> bal]
    ELSE IF amount > bal[a]
    THEN [err |-> <<"InsufficientFundsError", "account">>, bal |-> bal]
    ELSE [err |-> NoErr, bal |-> [bal EXCEPT ![a] = @ - amount]]

\* A faulty premium withdraw: the account's own fee is not charged.
premium_withdraw_without_fee(a, amount, bal) ==
    IF ensure_active(a) # NoErr
    THEN [err |-> ensure_active(a), bal |-> bal]
    ELSE IF validate_amount(amount) # NoErr
    THEN [err |-> validate_amount(amount), bal |-> bal]
    ELSE IF bal[a] - amount < 0 - Account[a].overdraft_limit
    THEN [err |-> <<"InsufficientFundsError", "overdraft">>, bal |-> bal]
    ELSE [err |-> NoErr, bal |-> [bal EXCEPT ![a] = @ - amount]]

\* PremiumAccount.withdraw
premium_withdraw(a, amount, bal) ==
    IF ensure_active(a) # NoErr
    THEN [err |-> ensure_active(a), bal |-> bal]
    ELSE IF validate_amount(amount) # NoErr
    THEN [err |-> validate_amount(amount), bal |-> bal]
    ELSE LET total_debit == amount + Account[a].withdraw_fee_fixed
         IN  IF bal[a] - total_debit < 0 - Account[a].overdraft_limit
             THEN [err |-> <<"InsufficientFundsError", "overdraft">>,
                   bal |-> bal]
             ELSE [err |-> NoErr, bal |-> [bal EXCEPT ![a] = @ - total_debit]]

\* A faulty savings withdraw: the balance may fall to zero.
savings_withdraw_to_zero(a, amount, bal) ==
    IF validate_amount(amount) # NoErr
    THEN [err |-> validate_amount(amount), bal |-> bal]
    ELSE IF ensure_active(a) # NoErr
    THEN [err |-> ensure_active(a), bal |-> bal]
    ELSE IF bal[a] - amount < 0
    THEN [err |-> <<"InsufficientFundsError", "min_balance">>, bal |-> bal]
    ELSE [err |-> NoErr, bal |-> [bal EXCEPT ![a] = @ - amount]]

\* SavingsAccount.withdraw: the amount is validated before the status.
savings_withdraw(a, amount, bal) ==
    IF validate_amount(amount) # NoErr
    THEN [err |-> validate_amount(amount), bal |-> bal]
    ELSE IF ensure_active(a) # NoErr
    THEN [err |-> ensure_active(a), bal |-> bal]
    ELSE IF bal[a] - amount < Account[a].min_balance
    THEN [err |-> <<"InsufficientFundsError", "min_balance">>, bal |-> bal]
    ELSE [err |-> NoErr, bal |-> [bal EXCEPT ![a] = @ - amount]]

\* sender.withdraw(amount), dispatched on the account's class.
withdraw(a, amount, bal) ==
    IF Account[a].kind = "failing"
    THEN [err |-> <<"RuntimeError", "withdraw">>, bal |-> bal]
    ELSE IF Account[a].kind = "premium"
    THEN premium_withdraw(a, amount, bal)
    ELSE IF Account[a].kind = "savings"
    THEN savings_withdraw(a, amount, bal)
    ELSE bank_withdraw(a, amount, bal)

\* ------------------------------------------------------------ transaction
\* TransactionStatus
PENDING == "pending"
CANCELLED == "cancelled"
PROCESSED == "processed"
FAILED == "failed"

\* failure_reason is a tuple of strings; None is the empty tuple.
NoReason == <<>>

\* The requests a caller enqueues: amount, currency, sender, recipient,
\* fee_fixed and is_external of a Transaction (its type is always
\* TransactionType.TRANSFER, the enumeration's only member).
Transfer(amount, currency, sender, recipient, fee, ext) ==
    [amount |-> amount, currency |-> currency, sender |-> sender,
     recipient |-> recipient, fee_fixed |-> fee, is_external |-> ext]

Requests ==
    {Transfer(100, "RUB", "A", "B", 0, FALSE),
     Transfer(100000, "RUB", "A", "B", 0, FALSE),
     Transfer(100, "RUB", "A", "X", 0, FALSE)}

\* Transaction(...): a new transaction is Pending, without failure reason,
\* with zero attempts.
Transaction(req, sched, prio) ==
    [status |-> PENDING, failure_reason |-> NoReason, attempts |-> 0,
     scheduled_at |-> sched, priority |-> prio,
     amount |-> req.amount, currency |-> req.currency,
     sender |-> req.sender, recipient |-> req.recipient,
     fee_fixed |-> req.fee_fixed, is_external |-> req.is_external]

\* A faulty mark_failed: the reason is not recorded.
mark_failed_without_reason(tx, reason) ==
    [tx EXCEPT !.status = FAILED]

\* Transaction.mark_failed
mark_failed(tx, reason) ==
    [tx EXCEPT !.status = FAILED, !.failure_reason = reason]

\* A faulty mark_processed: the status is left as it was.
mark_processed_keeps_status(tx) ==
    [tx EXCEPT !.failure_reason = NoReason]

\* Transaction.mark_processed
mark_processed(tx) ==
    [tx EXCEPT !.status = PROCESSED, !.failure_reason = NoReason]

\* Transaction.cancel
tx_cancel(tx, reason) ==
    [tx EXCEPT !.status = CANCELLED, !.failure_reason = <<reason>>]

\* ------------------------------------------------------------------ queue
\* _QueueItem
QueueItem(sched, prio, order, id) ==
    [scheduled_at |-> sched, neg_priority |-> 0 - prio, order |-> order,
     tx_id |-> id]

NoItem == [scheduled_at |-> 0 - 1, neg_priority |-> 0, order |-> 0,
           tx_id |-> "none"]

\* A faulty ordering: the priority field is left out of the comparison.
ItemLess_no_priority(a, b) ==
    \/ a.scheduled_at < b.scheduled_at
    \/ /\ a.scheduled_at = b.scheduled_at
       /\ a.order < b.order

\* _QueueItem's generated __lt__: the tuple (scheduled_at, neg_priority,
\* order), compared lexicographically; tx_id takes no part.
ItemLess(a, b) ==
    \/ a.scheduled_at < b.scheduled_at
    \/ /\ a.scheduled_at = b.scheduled_at
       /\ a.neg_priority < b.neg_priority
    \/ /\ a.scheduled_at = b.scheduled_at
       /\ a.neg_priority = b.neg_priority
       /\ a.order < b.order

\* self._heap[0]: the least entry of a non-empty heap.
HeapTop(h) == CHOOSE e \in h : \A f \in h : f = e \/ ItemLess(e, f)

\* A faulty pop_ready: a stale root ends the search (return instead of
\* continue).
pop_ready_stops_at_stale(h, its, now) ==
    IF h = {} THEN [tx |-> "none", heap |-> h, entry |-> NoItem]
    ELSE LET top == HeapTop(h)
             rest == h \ {top}
         IN  IF top.scheduled_at > now
             THEN [tx |-> "none", heap |-> h, entry |-> NoItem]
             ELSE IF top.tx_id \notin DOMAIN its
             THEN [tx |-> "none", heap |-> rest, entry |-> NoItem]
             ELSE IF its[top.tx_id].status # PENDING
             THEN [tx |-> "none", heap |-> rest, entry |-> NoItem]
             ELSE [tx |-> top.tx_id, heap |-> rest, entry |-> top]

\* A faulty pop_ready: only processed and failed transactions are skipped.
RECURSIVE pop_ready_returns_cancelled(_, _, _)
pop_ready_returns_cancelled(h, its, now) ==
    IF h = {} THEN [tx |-> "none", heap |-> h, entry |-> NoItem]
    ELSE LET top == HeapTop(h)
             rest == h \ {top}
         IN  IF top.scheduled_at > now
             THEN [tx |-> "none", heap |-> h, entry |-> NoItem]
             ELSE IF top.tx_id \notin DOMAIN its
             THEN pop_ready_returns_cancelled(rest, its, now)
             ELSE IF its[top.tx_id].status \in {PROCESSED, FAILED}
             THEN pop_ready_returns_cancelled(rest, its, now)
             ELSE [tx |-> top.tx_id, heap |-> rest, entry |-> top]

\* A faulty pop_ready: an entry scheduled exactly at now is not ready yet.
RECURSIVE pop_ready_strictly_before(_, _, _)
pop_ready_strictly_before(h, its, now) ==
    IF h = {} THEN [tx |-> "none", heap |-> h, entry |-> NoItem]
    ELSE LET top == HeapTop(h)
             rest == h \ {top}
         IN  IF top.scheduled_at >= now
             THEN [tx |-> "none", heap |-> h, entry |-> NoItem]
             ELSE IF top.tx_id \notin DOMAIN its
             THEN pop_ready_strictly_before(rest, its, now)
             ELSE IF its[top.tx_id].status # PENDING
             THEN pop_ready_strictly_before(rest, its, now)
             ELSE [tx |-> top.tx_id, heap |-> rest, entry |-> top]

\* A faulty pop_ready: the entry of the transaction returned is read but
\* left on the heap.
RECURSIVE pop_ready_keeps_entry(_, _, _)
pop_ready_keeps_entry(h, its, now) ==
    IF h = {} THEN [tx |-> "none", heap |-> h, entry |-> NoItem]
    ELSE LET top == HeapTop(h)
             rest == h \ {top}
         IN  IF top.scheduled_at > now
             THEN [tx |-> "none", heap |-> h, entry |-> NoItem]
             ELSE IF top.tx_id \notin DOMAIN its
             THEN pop_ready_keeps_entry(rest, its, now)
             ELSE IF its[top.tx_id].status # PENDING
             THEN pop_ready_keeps_entry(rest, its, now)
             ELSE [tx |-> top.tx_id, heap |-> h, entry |-> top]

\* TransactionQueue.pop_ready, as a function of the heap, the id map and
\* now: the transaction returned ("none" for None), the heap left behind and
\* the entry that was popped for the returned transaction.
RECURSIVE pop_ready(_, _, _)
pop_ready(h, its, now) ==
    IF h = {} THEN [tx |-> "none", heap |-> h, entry |-> NoItem]
    ELSE LET top == HeapTop(h)
             rest == h \ {top}
         IN  IF top.scheduled_at > now
             THEN [tx |-> "none", heap |-> h, entry |-> NoItem]
             ELSE IF top.tx_id \notin DOMAIN its
             THEN pop_ready(rest, its, now)
             ELSE IF its[top.tx_id].status # PENDING
             THEN pop_ready(rest, its, now)
             ELSE [tx |-> top.tx_id, heap |-> rest, entry |-> top]

\* A faulty requeue: the transaction is rescheduled from the wall clock
\* also for a delay of 0.
requeue_sched_from_now(tx, delay) == clock + delay

\* TransactionQueue.requeue, as a function: the transaction with its new
\* scheduled_at and the entry pushed.  delay_seconds > 0 reschedules at the
\* wall clock plus the delay.
requeue_sched(tx, delay) ==
    IF delay > 0 THEN clock + delay ELSE tx.scheduled_at

\* A faulty __len__: the size of the heap.
QueueLen_heap_size == Cardinality(heap)

\* TransactionQueue.__len__
QueueLen == Cardinality({id \in DOMAIN items : items[id].status = PENDING})

\* TransactionQueue.list_pending
list_pending == {id \in DOMAIN items : items[id].status = PENDING}

\* -------------------------------------------------------------- processor
\* ProcessorConfig.external_fee_fixed
external_fee_fixed == 1
\* ProcessorConfig.max_retries
max_retries == 2

\* ProcessorConfig.rates, as fractions: the processor is constructed with
\* the two rates between RUB and USD of _default_rates (base[a] / base[b])
\* and the rate from EUR to RUB; no other pair has a rate, so RUB to EUR
\* has none although its reverse has, and USD to EUR has none although
\* both have a rate to RUB.
rates ==
    (<<"RUB", "USD">> :> [num |-> 1, den |-> 100]) @@
    (<<"USD", "RUB">> :> [num |-> 100, den |-> 1]) @@
    (<<"EUR", "RUB">> :> [num |-> 110, den |-> 1])

\* A faulty convert: a missing pair is derived from the reverse pair.
convert_through_reverse(amount, cur_from, cur_to) ==
    IF cur_from = cur_to THEN [err |-> NoErr, value |-> amount]
    ELSE IF <<cur_from, cur_to>> \in DOMAIN rates
    THEN [err |-> NoErr,
          value |-> (amount * rates[<<cur_from, cur_to>>].num)
                       \div rates[<<cur_from, cur_to>>].den]
    ELSE IF <<cur_to, cur_from>> \in DOMAIN rates
    THEN [err |-> NoErr,
          value |-> (amount * rates[<<cur_to, cur_from>>].den)
                       \div rates[<<cur_to, cur_from>>].num]
    ELSE [err |-> <<"InvalidOperationError", "no_rate">>, value |-> 0]

\* TransactionProcessor.convert: the error raised or the converted value.
convert(amount, cur_from, cur_to) ==
    IF cur_from = cur_to THEN [err |-> NoErr, value |-> amount]
    ELSE IF <<cur_from, cur_to>> \notin DOMAIN rates
    THEN [err |-> <<"InvalidOperationError", "no_rate">>, value |-> 0]
    ELSE [err |-> NoErr,
          value |-> (amount * rates[<<cur_from, cur_to>>].num)
                       \div rates[<<cur_from, cur_to>>].den]

\* A faulty status check: only a frozen account is refused.
ensure_account_active_frozen_only(a) ==
    IF a = "none" THEN NoErr
    ELSE IF Account[a].kind = "object"
    THEN <<"AttributeError", "status">>
    ELSE IF Account[a].status = "frozen"
    THEN <<"AccountFrozenError", "processor">>
    ELSE NoErr

\* TransactionProcessor._ensure_account_active
ensure_account_active(a) ==
    IF a = "none" THEN NoErr
    ELSE IF Account[a].kind = "object"
    THEN <<"AttributeError", "status">>
    ELSE IF Account[a].status = "frozen"
    THEN <<"AccountFrozenError", "processor">>
    ELSE IF Account[a].status = "closed"
    THEN <<"AccountClosedError", "processor">>
    ELSE NoErr

\* A faulty internal transfer: the fee is withdrawn before the principal.
internal_transfer_fee_first(tx, amount, fee_total, bal) ==
    LET s == tx.sender
        r == tx.recipient
        same == tx.currency = Account[s].currency
        ca == IF same THEN [err |-> NoErr, value |-> amount]
              ELSE convert(amount, tx.currency, Account[s].currency)
        cf == IF same THEN [err |-> NoErr, value |-> fee_total]
              ELSE IF fee_total > 0
              THEN convert(fee_total, tx.currency, Account[s].currency)
              ELSE [err |-> NoErr, value |-> 0]
        debit_amount == ca.value
        debit_fee == cf.value
        total_debit == debit_amount + debit_fee
        w1 == IF debit_fee > 0 THEN withdraw(s, debit_fee, bal)
              ELSE [err |-> NoErr, bal |-> bal]
        w2 == withdraw(s, debit_amount, w1.bal)
        cc == IF tx.currency # Account[r].currency
              THEN convert(amount, tx.currency, Account[r].currency)
              ELSE [err |-> NoErr, value |-> amount]
    IN  IF ca.err # NoErr THEN [err |-> ca.err, bal |-> bal]
        ELSE IF cf.err # NoErr THEN [err |-> cf.err, bal |-> bal]
        ELSE IF Account[s].kind # "premium" /\ total_debit > bal[s]
        THEN [err |-> <<"InsufficientFundsError", "processor">>, bal |-> bal]
        ELSE IF w1.err # NoErr THEN w1
        ELSE IF w2.err # NoErr THEN w2
        ELSE IF cc.err # NoErr THEN [err |-> cc.err, bal |-> w2.bal]
        ELSE deposit(r, cc.value, w2.bal)

\* A faulty internal transfer: the balance of a sender without overdraft is
\* not checked before the withdraws.
internal_transfer_without_precheck(tx, amount, fee_total, bal) ==
    LET s == tx.sender
        r == tx.recipient
        same == tx.currency = Account[s].currency
        ca == IF same THEN [err |-> NoErr, value |-> amount]
              ELSE convert(amount, tx.currency, Account[s].currency)
        cf == IF same THEN [err |-> NoErr, value |-> fee_total]
              ELSE IF fee_total > 0
              THEN convert(fee_total, tx.currency, Account[s].currency)
              ELSE [err |-> NoErr, value |-> 0]
        debit_amount == ca.value
        debit_fee == cf.value
        total_debit == debit_amount + debit_fee
        w1 == withdraw(s, debit_amount, bal)
        w2 == IF debit_fee > 0 THEN withdraw(s, debit_fee, w1.bal) ELSE w1
        cc == IF tx.currency # Account[r].currency
              THEN convert(amount, tx.currency, Account[r].currency)
              ELSE [err |-> NoErr, value |-> amount]
    IN  IF ca.err # NoErr THEN [err |-> ca.err, bal |-> bal]
        ELSE IF cf.err # NoErr THEN [err |-> cf.err, bal |-> bal]
        ELSE IF w1.err # NoErr THEN w1
        ELSE IF w2.err # NoErr THEN w2
        ELSE IF cc.err # NoErr THEN [err |-> cc.err, bal |-> w2.bal]
        ELSE deposit(r, cc.value, w2.bal)

\* _process_transaction, case 1: the internal transfer.
internal_transfer(tx, amount, fee_total, bal) ==
    LET s == tx.sender
        r == tx.recipient
        same == tx.currency = Account[s].currency
        ca == IF same THEN [err |-> NoErr, value |-> amount]
              ELSE convert(amount, tx.currency, Account[s].currency)
        cf == IF same THEN [err |-> NoErr, value |-> fee_total]
              ELSE IF fee_total > 0
              THEN convert(fee_total, tx.currency, Account[s].currency)
              ELSE [err |-> NoErr, value |-> 0]
        debit_amount == ca.value
        debit_fee == cf.value
        total_debit == debit_amount + debit_fee
        w1 == withdraw(s, debit_amount, bal)
        w2 == IF debit_fee > 0 THEN withdraw(s, debit_fee, w1.bal) ELSE w1
        cc == IF tx.currency # Account[r].currency
              THEN convert(amount, tx.currency, Account[r].currency)
              ELSE [err |-> NoErr, value |-> amount]
    IN  IF ca.err # NoErr THEN [err |-> ca.err, bal |-> bal]
        ELSE IF cf.err # NoErr THEN [err |-> cf.err, bal |-> bal]
        ELSE IF Account[s].kind # "premium" /\ total_debit > bal[s]
        THEN [err |-> <<"InsufficientFundsError", "processor">>, bal |-> bal]
        ELSE IF w1.err # NoErr THEN w1
        ELSE IF w2.err # NoErr THEN w2
        ELSE IF cc.err # NoErr THEN [err |-> cc.err, bal |-> w2.bal]
        ELSE deposit(r, cc.value, w2.bal)

\* A faulty external credit: a fee equal to the amount passes the check.
external_credit_allows_zero(tx, amount, fee_total, bal) ==
    LET r == tx.recipient
        credit_amount == amount - fee_total
        cc == IF tx.currency # Account[r].currency
              THEN convert(credit_amount, tx.currency, Account[r].currency)
              ELSE [err |-> NoErr, value |-> credit_amount]
    IN  IF credit_amount < 0
        THEN [err |-> <<"InvalidOperationError", "credit_after_fee">>,
              bal |-> bal]
        ELSE IF cc.err # NoErr THEN [err |-> cc.err, bal |-> bal]
        ELSE deposit(r, cc.value, bal)

\* A faulty external credit: the fee is not held back from the amount.
external_credit_gross(tx, amount, fee_total, bal) ==
    LET r == tx.recipient
        cc == IF tx.currency # Account[r].currency
              THEN convert(amount, tx.currency, Account[r].currency)
              ELSE [err |-> NoErr, value |-> amount]
    IN  IF amount - fee_total <= 0
        THEN [err |-> <<"InvalidOperationError", "credit_after_fee">>,
              bal |-> bal]
        ELSE IF cc.err # NoErr THEN [err |-> cc.err, bal |-> bal]
        ELSE deposit(r, cc.value, bal)

\* _process_transaction, case 2: the external credit.
external_credit(tx, amount, fee_total, bal) ==
    LET r == tx.recipient
        credit_amount == amount - fee_total
        cc == IF tx.currency # Account[r].currency
              THEN convert(credit_amount, tx.currency, Account[r].currency)
              ELSE [err |-> NoErr, value |-> credit_amount]
    IN  IF credit_amount <= 0
        THEN [err |-> <<"InvalidOperationError", "credit_after_fee">>,
              bal |-> bal]
        ELSE IF cc.err # NoErr THEN [err |-> cc.err, bal |-> bal]
        ELSE deposit(r, cc.value, bal)

\* _process_transaction, case 3: the external debit.
external_debit(tx, amount, fee_total, bal) ==
    LET s == tx.sender
        cd == IF tx.currency # Account[s].currency
              THEN convert(amount + fee_total, tx.currency,
                           Account[s].currency)
              ELSE [err |-> NoErr, value |-> amount + fee_total]
    IN  IF cd.err # NoErr THEN [err |-> cd.err, bal |-> bal]
        ELSE withdraw(s, cd.value, bal)

\* A faulty _process_transaction: a transaction without sender and recipient
\* raises an error outside the four terminal classes.
process_transaction_config_transient(tx, bal) ==
    LET amount == tx.amount
        fee_total == tx.fee_fixed
                     + (IF tx.is_external THEN external_fee_fixed ELSE 0)
    IN  IF amount <= 0
        THEN [err |-> <<"InvalidOperationError", "amount">>, bal |-> bal]
        ELSE IF ensure_account_active(tx.sender) # NoErr
        THEN [err |-> ensure_account_active(tx.sender), bal |-> bal]
        ELSE IF ensure_account_active(tx.recipient) # NoErr
        THEN [err |-> ensure_account_active(tx.recipient), bal |-> bal]
        ELSE IF tx.sender # "none" /\ tx.recipient # "none"
        THEN internal_transfer(tx, amount, fee_total, bal)
        ELSE IF tx.sender = "none" /\ tx.recipient # "none"
        THEN external_credit(tx, amount, fee_total, bal)
        ELSE IF tx.recipient = "none" /\ tx.sender # "none"
        THEN external_debit(tx, amount, fee_total, bal)
        ELSE [err |-> <<"ValueError", "configuration">>,
              bal |-> bal]

\* TransactionProcessor._process_transaction: the error raised (NoErr when
\* it returns) and the balances it leaves, which keep every withdraw and
\* deposit made before the error.
process_transaction(tx, bal) ==
    LET amount == tx.amount
        fee_total == tx.fee_fixed
                     + (IF tx.is_external THEN external_fee_fixed ELSE 0)
    IN  IF amount <= 0
        THEN [err |-> <<"InvalidOperationError", "amount">>, bal |-> bal]
        ELSE IF ensure_account_active(tx.sender) # NoErr
        THEN [err |-> ensure_account_active(tx.sender), bal |-> bal]
        ELSE IF ensure_account_active(tx.recipient) # NoErr
        THEN [err |-> ensure_account_active(tx.recipient), bal |-> bal]
        ELSE IF tx.sender # "none" /\ tx.recipient # "none"
        THEN internal_transfer(tx, amount, fee_total, bal)
        ELSE IF tx.sender = "none" /\ tx.recipient # "none"
        THEN external_credit(tx, amount, fee_total, bal)
        ELSE IF tx.recipient = "none" /\ tx.sender # "none"
        THEN external_debit(tx, amount, fee_total, bal)
        ELSE [err |-> <<"InvalidOperationError", "configuration">>,
              bal |-> bal]

\* ----------------------------------------------------------- risk analyzer
\* RiskLevel
LOW == "low"
MEDIUM == "medium"
HIGH == "high"

\* RiskConfig.large_amount_threshold
large_amount_threshold ==
    [RUB |-> 100000, USD |-> 2000, EUR |-> 2000, KZT |-> 2000000,
     CNY |-> 15000]
\* RiskConfig.frequency_window_seconds
frequency_window_seconds == 60
\* RiskConfig.frequency_limit
frequency_limit == 3
\* RiskConfig.night_from and night_to, in seconds after midnight
night_from == 0
night_to == 5 * 3600

\* The time of day of second 0 of the model: 04:59:59, so that second 0 is
\* in the night window and the later seconds are not.
EpochTimeOfDay == 5 * 3600 - 1

\* RiskAnalyzer._is_night
is_night(now) ==
    LET t == (EpochTimeOfDay + now) % (24 * 3600)
    IN  night_from <= t /\ t < night_to

\* RiskAnalyzer._account_id: "" for None and for an object without id.
account_id(a) ==
    IF a = "none" THEN ""
    ELSE IF Account[a].kind = "object" THEN ""
    ELSE a

\* A faulty pruning: the time stamp at the cutoff itself is dropped.
RECURSIVE prune_at_cutoff(_, _)
prune_at_cutoff(hist, cutoff) ==
    IF hist = <<>> THEN <<>>
    ELSE IF Head(hist) > cutoff
    THEN <<Head(hist)>> \o prune_at_cutoff(Tail(hist), cutoff)
    ELSE prune_at_cutoff(Tail(hist), cutoff)

\* hist[:] = [ts for ts in hist if ts >= cutoff]
RECURSIVE prune(_, _)
prune(hist, cutoff) ==
    IF hist = <<>> THEN <<>>
    ELSE IF Head(hist) >= cutoff
    THEN <<Head(hist)>> \o prune(Tail(hist), cutoff)
    ELSE prune(Tail(hist), cutoff)

\* A faulty large-amount rule: the threshold itself is not large.
is_large_above_threshold(amount, currency) ==
    amount > large_amount_threshold[currency]

\* if amt >= threshold
is_large(amount, currency) == amount >= large_amount_threshold[currency]

\* A faulty novel-recipient rule: a recipient first seen in an assessment
\* that is already High is not remembered.
learn_recipient_unless_high(seen, rec_id, level) ==
    IF level = HIGH THEN seen ELSE seen \cup {rec_id}

\* known.add(rec_id), whatever the level reached so far.
learn_recipient(seen, rec_id, level) == seen \cup {rec_id}

\* RiskAnalyzer.assess: the level, the reasons in the order of the rules, and
\* the analyzer's history and known recipients after the call.
assess(tx, now, hist, known) ==
    LET large == is_large(tx.amount, tx.currency)
        sender_id == account_id(tx.sender)
        rec_id == account_id(tx.recipient)
        hist1 == IF sender_id = "" THEN <<>>
                 ELSE Append(prune(hist[sender_id],
                                   now - frequency_window_seconds), now)
        frequent == sender_id # "" /\ Len(hist1) >= frequency_limit
        novel == /\ sender_id # ""
                 /\ rec_id # ""
                 /\ rec_id \notin known[sender_id]
        night == is_night(now)
        level2 == IF large \/ frequent THEN HIGH ELSE LOW
        level3 == IF novel /\ level2 = LOW THEN MEDIUM ELSE level2
        level4 == IF night /\ level3 = LOW THEN MEDIUM ELSE level3
    IN  [level |-> level4,
         reasons |-> (IF large THEN <<"large_amount">> ELSE <<>>)
                     \o (IF frequent THEN <<"frequent">> ELSE <<>>)
                     \o (IF novel THEN <<"new_recipient">> ELSE <<>>)
                     \o (IF night THEN <<"night">> ELSE <<>>),
         history |-> IF sender_id = "" THEN hist
                     ELSE [hist EXCEPT ![sender_id] = hist1],
         known |-> IF novel
                   THEN [known EXCEPT
                           ![sender_id] = learn_recipient(@, rec_id, level2)]
                   ELSE known]

\* The arguments of one call of assess: the ids of sender and recipient as
\* _account_id reads them, and the effective now.
AssessCall(tx, now) ==
    [sender |-> account_id(tx.sender), recipient |-> account_id(tx.recipient),
     now |-> now]

\* ---------------------------------------------------------------- results
\* The last call: its name, the transaction it was about or returned, the
\* effective now, its result, the heap entry it popped or pushed, a textual
\* argument, the risk level assessed, whether run_all made the call, the
\* heap entries pop_ready discarded on its way, the error the execution of
\* the transaction raised, the reasons the risk analyzer gave, the number
\* of transactions handled (inside run_all: so far), and run_all's limit.
Ret(op, id, now, ok, entry) ==
    [op |-> op, tx |-> id, now |-> now, ok |-> ok, entry |-> entry,
     arg |-> "", level |-> "none", via |-> "caller", stale |-> {},
     err |-> NoErr, reasons |-> << >>, count |-> 0, limit |-> 0]

\* now = now or datetime.now(timezone.utc)
PyNow(nowArg) == IF nowArg = NoneTime THEN clock ELSE nowArg

Idle == [active |-> FALSE, now |-> 0, count |-> 0, limit |-> 0]

\* ---------------------------------------------------------------- actions
\* The processor is constructed over an empty queue, without or with a risk
\* analyzer and an audit log; the accounts hold their opening balances.
Init ==
    /\ items = << >>
    /\ heap = {}
    /\ order_seq = 0
    /\ clock = 0
    /\ balance = [a \in AccountIds |-> Account[a].opening]
    /\ history = [a \in AccountIds |-> << >>]
    /\ known_recipients = [a \in AccountIds |-> {}]
    /\ assessed = << >>
    /\ records = << >>
    /\ error_log = << >>
    /\ conf \in {[risk |-> FALSE, audit |-> FALSE],
                 [risk |-> TRUE, audit |-> FALSE],
                 [risk |-> TRUE, audit |-> TRUE]}
    /\ clients = << >>
    /\ credentials = << >>
    /\ failed_logins = << >>
    /\ wrong_streak = [c \in ClientIds |-> 0]
    /\ run = Idle
    /\ ret = Ret("init", "none", 0, TRUE, NoItem)

\* A faulty test: only the id of a Pending transaction counts as taken.
is_duplicate_pending_only(id, its) ==
    id \in DOMAIN its /\ its[id].status = PENDING

\* if tx.tx_id in self._items
is_duplicate(id, its) == id \in DOMAIN its

\* TransactionQueue.add(tx): ok is FALSE when the duplicate-id error is
\* raised.
Add(id, req, sched, prio) ==
    /\ ~run.active
    /\ IF is_duplicate(id, items)
       THEN /\ ret' = Ret("add", id, clock, FALSE, NoItem)
            /\ UNCHANGED <<items, heap, order_seq>>
       ELSE /\ order_seq < MaxSeq
            /\ items' = [k \in DOMAIN items \cup {id} |->
                           IF k = id THEN Transaction(req, sched, prio)
                           ELSE items[k]]
            /\ order_seq' = order_seq + 1
            /\ heap' = heap \cup {QueueItem(sched, prio, order_seq + 1, id)}
            /\ ret' = Ret("add", id, clock, TRUE,
                          QueueItem(sched, prio, order_seq + 1, id))
    /\ UNCHANGED <<clock, proc_vars, conf, bank_vars, run>>

\* A faulty refusal: only a processed transaction is refused.
cancel_refused_processed_only(tx) == tx.status = PROCESSED

\* The statuses for which cancel refuses to act.
cancel_refused(tx) == tx.status \in {PROCESSED, CANCELLED}

\* TransactionQueue.cancel(tx_id, reason)
Cancel(id, reason) ==
    /\ ~run.active
    /\ IF id \notin DOMAIN items
       THEN /\ ret' = [Ret("cancel", id, clock, FALSE, NoItem)
                          EXCEPT !.arg = reason]
            /\ UNCHANGED items
       ELSE IF cancel_refused(items[id])
       THEN /\ ret' = [Ret("cancel", id, clock, FALSE, NoItem)
                          EXCEPT !.arg = reason]
            /\ UNCHANGED items
       ELSE /\ items' = [items EXCEPT ![id] = tx_cancel(items[id], reason)]
            /\ ret' = [Ret("cancel", id, clock, TRUE, NoItem)
                          EXCEPT !.arg = reason]
    /\ UNCHANGED <<heap, order_seq, clock, proc_vars, conf, bank_vars,
                   run>>

\* TransactionQueue.pop_ready(now), called directly.
PopReady(nowArg) ==
    LET r == pop_ready(heap, items, PyNow(nowArg))
    IN  /\ ~run.active
        /\ heap' = r.heap
        /\ ret' = [Ret("pop_ready", r.tx, PyNow(nowArg), r.tx # "none",
                       r.entry)
                      EXCEPT !.stale = (heap \ r.heap) \ {r.entry}]
        /\ UNCHANGED <<items, order_seq, clock, proc_vars, conf, bank_vars,
                       run>>

\* TransactionQueue.requeue(tx, delay_seconds), called directly on a
\* transaction of the id map.
Requeue(id, delay) ==
    /\ ~run.active
    /\ id \in DOMAIN items
    /\ IF items[id].status # PENDING
       THEN /\ ret' = Ret("requeue", id, clock, FALSE, NoItem)
            /\ UNCHANGED <<items, heap, order_seq>>
       ELSE LET sched == requeue_sched(items[id], delay)
                e == QueueItem(sched, items[id].priority, order_seq + 1, id)
            IN  /\ order_seq < MaxSeq
                /\ items' = [items EXCEPT ![id].scheduled_at = sched]
                /\ order_seq' = order_seq + 1
                /\ heap' = heap \cup {e}
                /\ ret' = Ret("requeue", id, clock, TRUE, e)
    /\ UNCHANGED <<clock, proc_vars, conf, bank_vars, run>>

\* A faulty choice: a High assessment is logged as a warning.
audit_level_never_error(level) ==
    IF level = LOW THEN "info" ELSE "warning"

\* AuditLog.error / warning / info, chosen by the risk level.
audit_level(level) ==
    IF level = HIGH THEN "error"
    ELSE IF level = MEDIUM THEN "warning"
    ELSE "info"

\* A faulty risk gate: a Medium assessment blocks as well.
risk_blocks_medium_too(level) == level \in {HIGH, MEDIUM}

\* A faulty risk gate: the High assessment is logged but blocks nothing.
risk_blocks_never(level) == FALSE

\* The risk gate of process_next: a High assessment blocks the transaction.
risk_blocks(level) == level = HIGH

\* A faulty handler: insufficient funds is taken for a temporary error.
is_terminal_without_funds(err) ==
    err[1] \in TerminalErrors \ {"InsufficientFundsError"}

\* except (AccountFrozenError, AccountClosedError, InsufficientFundsError,
\* InvalidOperationError): the error is one of the unrecoverable ones.
is_terminal(err) == err[1] \in TerminalErrors

\* A faulty retry: the failed attempt is not counted.
count_attempt_lost(tx) == tx.attempts

\* tx.attempts += 1
count_attempt(tx) == tx.attempts + 1

\* TransactionProcessor.process_next(now); via tells whether run_all or the
\* caller made the call, count and limit are run_all's count and
\* safety_limit at the call.
process_next(nowArg, via, count, limit) ==
    LET now == PyNow(nowArg)
        r == pop_ready(heap, items, now)
        tx == items[r.tx]
        a == assess(tx, now, history, known_recipients)
        level == IF conf.risk THEN a.level ELSE "none"
        x == process_transaction(tx, balance)
        attempts == count_attempt(tx)
        sched == requeue_sched(tx, attempts)
        stale == (heap \ r.heap) \ {r.entry}
        result == [Ret("process_next", r.tx, now, TRUE, r.entry)
                      EXCEPT !.level = level, !.via = via, !.stale = stale,
                             !.err = IF risk_blocks(level) THEN NoErr
                                     ELSE x.err,
                             !.reasons = IF conf.risk THEN a.reasons
                                         ELSE << >>,
                             !.count = count + 1, !.limit = limit]
    IN  IF r.tx = "none"
        THEN /\ heap' = r.heap
             /\ ret' = [Ret("process_next", "none", now, FALSE, NoItem)
                           EXCEPT !.via = via, !.stale = stale,
                                  !.count = count, !.limit = limit]
             /\ UNCHANGED <<items, order_seq, proc_vars>>
        ELSE /\ ret' = result
             /\ history' = IF conf.risk THEN a.history ELSE history
             /\ known_recipients' =
                    IF conf.risk THEN a.known ELSE known_recipients
             /\ assessed' =
                    IF conf.risk THEN Append(assessed, AssessCall(tx, now))
                    ELSE assessed
             /\ records' =
                    IF conf.risk /\ conf.audit
                    THEN Append(records,
                                [level |-> audit_level(a.level),
                                 tx_id |-> r.tx, reasons |-> a.reasons])
                    ELSE records
             /\ IF risk_blocks(level)
                THEN /\ items' = [items EXCEPT ![r.tx] =
                            mark_failed(tx, <<"risk_blocked">> \o a.reasons)]
                     /\ heap' = r.heap
                     /\ UNCHANGED <<order_seq, balance, error_log>>
                ELSE IF x.err = NoErr
                THEN /\ items' = [items EXCEPT ![r.tx] = mark_processed(tx)]
                     /\ heap' = r.heap
                     /\ balance' = x.bal
                     /\ UNCHANGED <<order_seq, error_log>>
                ELSE IF is_terminal(x.err)
                THEN /\ items' = [items EXCEPT ![r.tx] =
                                     mark_failed(tx, x.err)]
                     /\ heap' = r.heap
                     /\ balance' = x.bal
                     /\ error_log' = Append(error_log, <<r.tx>> \o x.err)
                     /\ UNCHANGED order_seq
                ELSE IF attempts > max_retries
                THEN /\ items' = [items EXCEPT ![r.tx] =
                            mark_failed([tx EXCEPT !.attempts = attempts],
                                        <<"temporary_error">> \o x.err)]
                     /\ heap' = r.heap
                     /\ balance' = x.bal
                     /\ error_log' = Append(error_log,
                            <<r.tx, "temporary_error">> \o x.err)
                     /\ UNCHANGED order_seq
                ELSE /\ order_seq < MaxSeq
                     /\ items' = [items EXCEPT ![r.tx] =
                            [tx EXCEPT !.attempts = attempts,
                                       !.scheduled_at = sched]]
                     /\ order_seq' = order_seq + 1
                     /\ heap' = r.heap \cup
                            {QueueItem(sched, tx.priority, order_seq + 1,
                                       r.tx)}
                     /\ balance' = x.bal
                     /\ UNCHANGED error_log

\* RiskAnalyzer.assess(amount, currency, sender, recipient, now), called
\* directly with the fields of a transaction of the id map.
Assess(id, nowArg) ==
    LET now == PyNow(nowArg)
        a == assess(items[id], now, history, known_recipients)
    IN  /\ ~run.active
        /\ conf.risk
        /\ id \in DOMAIN items
        /\ Len(assessed) < MaxAssess
        /\ history' = a.history
        /\ known_recipients' = a.known
        /\ assessed' = Append(assessed, AssessCall(items[id], now))
        /\ ret' = [Ret("assess", id, now, TRUE, NoItem)
                      EXCEPT !.level = a.level, !.reasons = a.reasons]
        /\ UNCHANGED <<queue_vars, clock, balance, records, error_log, conf,
                       bank_vars, run>>

\* TransactionProcessor.process_next(now), called directly.
ProcessNext(nowArg) ==
    /\ ~run.active
    /\ process_next(nowArg, "caller", 0, 0)
    /\ UNCHANGED <<clock, conf, bank_vars, run>>

\* Safety limits a caller passes to run_all: 1, and the default.
SafetyLimits == {1, 1000}

\* A faulty loop: run_all returns after its first process_next.
run_all_loop_once(processed, count, nowArg, limit) == Idle

\* What run_all's loop does after a process_next: break when nothing was
\* processed, else count += 1 and the loop test count < safety_limit.
run_all_loop(processed, count, nowArg, limit) ==
    IF processed /\ count + 1 < limit
    THEN [active |-> TRUE, now |-> nowArg, count |-> count + 1,
          limit |-> limit]
    ELSE Idle

\* TransactionProcessor.run_all(now, safety_limit) is called with a positive
\* limit: count = 0 and the first iteration of the loop.
RunAll(nowArg, limit) ==
    /\ ~run.active
    /\ process_next(nowArg, "run_all", 0, limit)
    /\ run' = run_all_loop(ret'.ok, 0, nowArg, limit)
    /\ UNCHANGED <<clock, conf, bank_vars>>

\* A later iteration of run_all's loop.
RunAllStep ==
    /\ run.active
    /\ process_next(run.now, "run_all", run.count, run.limit)
    /\ run' = run_all_loop(ret'.ok, run.count, run.now, run.limit)
    /\ UNCHANGED <<clock, conf, bank_vars>>

\* The wall clock advances.
\* The accounts of the repository's classes.
RealAccounts ==
    {a \in AccountIds : Account[a].kind \in {"bank", "premium", "savings"}}

\* The amounts a caller passes to deposit and withdraw.
AccountAmounts == {NotANumber, 0 - 1, 0, 1, 100}

\* What a call of deposit or withdraw leaves: the balances and the call
\* with its account and the error it raised.
AccountCall(op, a, r) ==
    /\ balance' = r.bal
    /\ ret' = [Ret(op, "none", clock, r.err = NoErr, NoItem)
                 EXCEPT !.arg = a, !.err = r.err]
    /\ UNCHANGED <<queue_vars, clock, history, known_recipients, assessed,
                   records, error_log, conf, bank_vars, run>>

\* account.deposit(amount), called by the holder of the one account a.
AccountDeposit(a, amount) ==
    /\ ~run.active
    /\ ret.op = "init" \/ ret.arg = a
    /\ deposit(a, amount, balance).bal[a] <= MaxBalance
    /\ AccountCall("deposit", a, deposit(a, amount, balance))

\* account.withdraw(amount), called by the holder of the one account a.
AccountWithdraw(a, amount) ==
    /\ ~run.active
    /\ ret.op = "init" \/ ret.arg = a
    /\ AccountCall("withdraw", a, withdraw(a, amount, balance))

\* ClientStatus
ACTIVE == "active"
BLOCKED == "blocked"

\* What a call of the bank leaves in ret.
BankRet(op, c, ok) ==
    [Ret(op, "none", clock, ok, NoItem) EXCEPT !.arg = c]

\* Bank.add_client(client, password) for a client the bank does not have:
\* a new Client is active and not suspicious.
AddClient(c, password) ==
    /\ ~run.active
    /\ c \notin DOMAIN clients
    /\ clients' = [k \in DOMAIN clients \cup {c} |->
                     IF k = c THEN [status |-> ACTIVE, suspicious |-> FALSE]
                     ELSE clients[k]]
    /\ credentials' = [k \in DOMAIN credentials \cup {c} |->
                         IF k = c THEN password ELSE credentials[k]]
    /\ failed_logins' = [k \in DOMAIN failed_logins \cup {c} |->
                           IF k = c THEN 0 ELSE failed_logins[k]]
    /\ ret' = BankRet("add_client", c, TRUE)
    /\ UNCHANGED <<queue_vars, clock, proc_vars, conf, wrong_streak, run>>

\* A faulty block: the client is blocked on the second failure.
blocks_at_two(failures) == failures >= 2

\* authenticate_client: the number of failures that blocks the client.
blocks_at(failures) == failures >= 3

\* Bank.authenticate_client(client_id, password)
AuthenticateClient(c, password) ==
    /\ ~run.active
    /\ IF c \notin DOMAIN clients
       THEN /\ ret' = BankRet("authenticate_client", c, FALSE)
            /\ UNCHANGED bank_vars
       ELSE IF clients[c].status = BLOCKED
       THEN /\ wrong_streak[c] < MaxStreak
            /\ ret' = BankRet("authenticate_client", c, FALSE)
            /\ wrong_streak' =
                  [wrong_streak EXCEPT
                     ![c] = IF credentials[c] = password THEN 0 ELSE @ + 1]
            /\ UNCHANGED <<clients, credentials, failed_logins>>
       ELSE IF credentials[c] = password
       THEN /\ failed_logins' = [failed_logins EXCEPT ![c] = 0]
            /\ wrong_streak' = [wrong_streak EXCEPT ![c] = 0]
            /\ ret' = BankRet("authenticate_client", c, TRUE)
            /\ UNCHANGED <<clients, credentials>>
       ELSE LET failures == failed_logins[c] + 1
            IN  /\ wrong_streak[c] < MaxStreak
                /\ failed_logins' = [failed_logins EXCEPT ![c] = failures]
                /\ wrong_streak' = [wrong_streak EXCEPT ![c] = @ + 1]
                /\ clients' =
                      [clients EXCEPT
                         ![c].suspicious = @ \/ failures >= 2,
                         ![c].status = IF blocks_at(failures) THEN BLOCKED
                                       ELSE @]
                /\ ret' = BankRet("authenticate_client", c, FALSE)
                /\ UNCHANGED credentials
    /\ UNCHANGED <<queue_vars, clock, proc_vars, conf, run>>

Tick ==
    /\ clock < MaxClock
    /\ clock' = clock + 1
    /\ ret' = Ret("tick", "none", clock + 1, TRUE, NoItem)
    /\ UNCHANGED <<queue_vars, proc_vars, conf, bank_vars, run>>

\* ----------------------------------------------------------- specifications
\* Submitting and cancelling, which every caller does.
ClientCalls(requests, scheds, priorities, reasons) ==
    \/ \E id \in TxIds, q \in requests, s \in scheds, p \in priorities :
          Add(id, q, s, p)
    \/ \E id \in TxIds, r \in reasons : Cancel(id, r)

\* The calls of a caller who drives the queue by hand.
QueueCalls(nows) ==
    \/ \E n \in nows : PopReady(n)
    \/ \E id \in TxIds, d \in Delays : Requeue(id, d)

\* The calls of a caller who lets the processor drive the queue.
ProcessorCalls(nows, limits) ==
    \/ \E n \in nows : ProcessNext(n)
    \/ \E n \in nows, l \in limits : RunAll(n, l)
    \/ RunAllStep

\* Spec: every operation of the queue and of a processor without risk
\* analyzer, over the three requests, transactions scheduled at 0 or 1, one
\* priority and one cancel reason; run_all is called with its default limit.
Next ==
    \/ ClientCalls(Requests, {0, 1}, {0}, {"cancelled_by_user"})
    \/ QueueCalls(Times)
    \/ ProcessorCalls(Times, {1000})
    \/ Tick

InitPlain == Init /\ conf = [risk |-> FALSE, audit |-> FALSE]

Spec == InitPlain /\ [][Next]_vars

\* SpecQueue: the queue alone, driven by hand, over every priority and both
\* cancel reasons.
NextQueue ==
    \/ ClientCalls({Transfer(100, "RUB", "A", "B", 0, FALSE)}, Times,
                   Priorities, CancelReasons)
    \/ QueueCalls(NowArgs)
    \/ Tick

SpecQueue == InitPlain /\ [][NextQueue]_vars

\* SpecRisk: a processor with risk analyzer and audit log drives the queue.
NextRisk ==
    \/ ClientCalls(Requests, {0, 1}, {0}, {"cancelled_by_user"})
    \/ ProcessorCalls(NowArgs, SafetyLimits)
    \/ Tick

InitRisk == Init /\ conf = [risk |-> TRUE, audit |-> TRUE]

SpecRisk == InitRisk /\ [][NextRisk]_vars

\* SpecCancel: submitting, processing and cancelling with both reasons.
NextCancel ==
    \/ ClientCalls({Transfer(100, "RUB", "A", "B", 0, FALSE),
                    Transfer(100000, "RUB", "A", "B", 0, FALSE)},
                   {0, 1}, {0}, CancelReasons)
    \/ \E n \in Times : ProcessNext(n)
    \/ Tick

SpecCancel == InitPlain /\ [][NextCancel]_vars

\* SpecErrors: a processor of any construction over requests that succeed,
\* raise each of the four unrecoverable errors, or raise a temporary one:
\* a transfer, a frozen sender, a closed recipient, more than the balance,
\* a zero amount, and a recipient that is no account.
ErrorRequests ==
    {Transfer(100, "RUB", "A", "B", 0, FALSE),
     Transfer(100, "RUB", "F", "A", 0, FALSE),
     Transfer(100, "RUB", "A", "C", 0, FALSE),
     Transfer(2000, "RUB", "A", "B", 0, FALSE),
     Transfer(0, "RUB", "A", "B", 0, FALSE),
     Transfer(100, "RUB", "A", "X", 0, FALSE)}

NextErrors ==
    \/ ClientCalls(ErrorRequests, {0}, {0}, {"cancelled_by_user"})
    \/ ProcessorCalls(Times, {1000})
    \/ Tick

SpecErrors == Init /\ [][NextErrors]_vars

\* SpecDrain: run_all with the limit 1 and with the default limit, over a
\* queue that a caller also pops by hand; a transfer that succeeds and one
\* that is put back for a retry.
NextDrain ==
    \/ ClientCalls({Transfer(100, "RUB", "A", "B", 0, FALSE),
                    Transfer(100, "RUB", "A", "X", 0, FALSE)},
                   {0, 1}, {0}, {"cancelled_by_user"})
    \/ \E n \in Times : PopReady(n)
    \/ ProcessorCalls(Times, SafetyLimits)
    \/ Tick

SpecDrain == InitPlain /\ [][NextDrain]_vars

\* SpecAssess: the risk analyzer alone, called with the fields of one or
\* two submitted transactions at times on both sides of the frequency
\* window and of the night window: amounts at and below the threshold, a
\* second recipient, a sender that is no account, and no recipient.  The
\* wall clock stands still, so now=None is the time 0.
AssessRequests ==
    {Transfer(99999, "RUB", "A", "B", 0, FALSE),
     Transfer(100000, "RUB", "A", "B", 0, FALSE),
     Transfer(100, "RUB", "A", "P", 0, FALSE),
     Transfer(100, "RUB", "X", "B", 0, FALSE),
     Transfer(100, "RUB", "A", "none", 0, TRUE)}

AssessTimes ==
    {0, 1, frequency_window_seconds, frequency_window_seconds + 1}

NextAssess ==
    \/ \E id \in TxIds, q \in AssessRequests : Add(id, q, 0, 0)
    \/ \E id \in TxIds, n \in AssessTimes \cup {NoneTime} : Assess(id, n)

SpecAssess == InitRisk /\ [][NextAssess]_vars

\* SpecFrequent: the scenario of test_frequent_ops_blocked_and_medium_not_
\* blocked.  Three small transfers from A to B are submitted with scheduled
\* times 1, 11 or 21, all within one frequency window and outside the
\* night; when the three are queued, run_all is called with the default
\* limit and with now the earliest (as the test does) or the latest of
\* their scheduled times.
FrequentIds == {"t1", "t2", "t3"}

FrequentTimes == {1, 11, 21}

EarliestScheduled ==
    CHOOSE t \in FrequentTimes :
        /\ \E id \in DOMAIN items : items[id].scheduled_at = t
        /\ \A id \in DOMAIN items : items[id].scheduled_at >= t

LatestScheduled ==
    CHOOSE t \in FrequentTimes :
        /\ \E id \in DOMAIN items : items[id].scheduled_at = t
        /\ \A id \in DOMAIN items : items[id].scheduled_at <= t

RunAllQueued ==
    /\ DOMAIN items = FrequentIds
    /\ \E n \in {EarliestScheduled, LatestScheduled} : RunAll(n, 1000)

NextFrequent ==
    \/ \E id \in FrequentIds, s \in FrequentTimes :
          Add(id, Transfer(100, "RUB", "A", "B", 0, FALSE), s, 0)
    \/ RunAllQueued
    \/ RunAllStep

SpecFrequent == InitRisk /\ [][NextFrequent]_vars

\* SpecExec: the execution of a transaction, over every case of
\* _process_transaction: internal transfers with and without fee and
\* conversion, external credits and debits, premium senders, a transfer of
\* an account to itself, and the transfers that fail on a check.
ExecRequests ==
    {Transfer(100, "RUB", "A", "B", 0, FALSE),
     Transfer(1, "USD", "A", "B", 2, FALSE),
     Transfer(100, "RUB", "A", "P", 2, FALSE),
     Transfer(100, "RUB", "A", "A", 2, FALSE),
     Transfer(50, "RUB", "P", "A", 2, FALSE),
     Transfer(100, "RUB", "P", "A", 1, FALSE),
     Transfer(94, "RUB", "Q", "A", 1, FALSE),
     Transfer(200, "RUB", "P", "A", 1, FALSE),
     Transfer(100, "RUB", "S", "A", 1, FALSE),
     Transfer(10, "RUB", "Q", "A", 1, FALSE),
     Transfer(200, "RUB", "none", "A", 0, TRUE),
     Transfer(300, "RUB", "none", "B", 99, TRUE),
     Transfer(1, "RUB", "none", "A", 0, TRUE),
     Transfer(5, "RUB", "none", "A", 7, FALSE),
     Transfer(1, "RUB", "none", "F", 0, TRUE),
     Transfer(100, "RUB", "A", "none", 0, TRUE),
     Transfer(1, "USD", "A", "none", 0, FALSE),
     Transfer(50, "RUB", "P", "none", 0, TRUE),
     Transfer(10, "RUB", "Q", "none", 0, TRUE),
     Transfer(100, "RUB", "none", "none", 0, FALSE),
     Transfer(0, "RUB", "none", "none", 0, FALSE),
     Transfer(100, "RUB", "A", "E", 0, FALSE),
     Transfer(1, "EUR", "A", "P", 0, FALSE),
     Transfer(1, "USD", "none", "E", 0, FALSE),
     Transfer(1, "USD", "E", "A", 0, FALSE),
     Transfer(1, "USD", "E", "none", 0, FALSE),
     Transfer(1, "EUR", "none", "B", 0, FALSE),
     Transfer(100, "RUB", "F", "A", 0, FALSE),
     Transfer(100, "RUB", "A", "F", 0, FALSE),
     Transfer(100, "RUB", "A", "C", 0, FALSE),
     Transfer(100, "RUB", "C", "A", 0, FALSE),
     Transfer(100, "RUB", "none", "C", 0, TRUE),
     Transfer(100, "RUB", "F", "none", 0, TRUE),
     Transfer(2000, "RUB", "A", "B", 0, FALSE),
     Transfer(11, "USD", "A", "B", 0, FALSE),
     Transfer(1000, "RUB", "A", "P", 1, FALSE),
     Transfer(1000, "RUB", "F", "C", 0, FALSE)}

NextExec ==
    \/ \E id \in TxIds, q \in ExecRequests : Add(id, q, 0, 0)
    \/ ProcessNext(0)

SpecExec == InitPlain /\ [][NextExec]_vars

\* SpecRetry: a processor without risk analyzer over a transfer that
\* succeeds, one whose recipient's deposit raises a temporary error after
\* the sender was debited, and one whose recipient is no account; the
\* times passed reach every back-off.
RetryRequests ==
    {Transfer(100, "RUB", "A", "B", 0, FALSE),
     Transfer(100, "RUB", "A", "Y", 0, FALSE),
     Transfer(100, "RUB", "A", "X", 0, FALSE)}

NextRetry ==
    \/ ClientCalls(RetryRequests, {0}, {0}, {"cancelled_by_user"})
    \/ ProcessorCalls(Times, {1000})
    \/ Tick

SpecRetry == InitPlain /\ [][NextRetry]_vars

\* SpecLive: the queue driven through a processor without risk analyzer, by
\* a caller who keeps calling process_next and in the end passes a now that
\* no scheduled time exceeds.  A transfer is an ordinary one or one whose
\* execution raises a temporary error; transactions are scheduled at 0 or 1.
LiveRequests ==
    {Transfer(100, "RUB", "A", "B", 0, FALSE),
     Transfer(100, "RUB", "A", "X", 0, FALSE)}

\* The latest time a transaction is ever scheduled at: the back-off of the
\* last retry, counted from the latest wall clock.
LateNow == MaxClock + max_retries

\* The times the caller passes to process_next and run_all.
LiveNows == {0, LateNow}

\* requeue pushes one heap entry for every retry of a transaction whose
\* execution raises a temporary error: the entries a transaction may still
\* need.
MayRetry(tx) == Account[tx.recipient].kind \in {"object", "failing"}

RetriesLeft(tx) ==
    IF tx.status = PENDING /\ MayRetry(tx)
    THEN max_retries - tx.attempts ELSE 0

RECURSIVE SeqReserved(_, _)
SeqReserved(its, ids) ==
    IF ids = {} THEN 0
    ELSE LET id == CHOOSE x \in ids : TRUE
         IN  RetriesLeft(its[id]) + SeqReserved(its, ids \ {id})

\* queue.add(tx), while the sequence counter has room for the entry and
\* for the retries of every transaction queued.
AddLive(id, req, sched, prio) ==
    /\ order_seq + 1 + SeqReserved(items, DOMAIN items)
          + RetriesLeft(Transaction(req, sched, prio)) <= MaxSeq
    /\ Add(id, req, sched, prio)

NextLive ==
    \/ \E id \in TxIds, q \in LiveRequests, s \in {0, 1} : AddLive(id, q, s, 0)
    \/ \E id \in TxIds : Cancel(id, "cancelled_by_user")
    \/ ProcessorCalls(LiveNows, {1000})
    \/ Tick

\* process_next keeps being called with the late now, and a run_all that
\* was started goes on with its loop.
Fairness ==
    /\ WF_vars(ProcessNext(LateNow))
    /\ WF_vars(RunAllStep)

SpecLive == InitPlain /\ [][NextLive]_vars /\ Fairness

\* SpecAccount: deposits and withdraws made directly on one account of
\* each class and status, with amounts that are valid, zero, negative and
\* no number.
NextAccount ==
    \/ \E a \in RealAccounts, n \in AccountAmounts : AccountDeposit(a, n)
    \/ \E a \in RealAccounts, n \in AccountAmounts : AccountWithdraw(a, n)

SpecAccount == InitPlain /\ [][NextAccount]_vars

\* SpecBank: two clients register with a password each and log in with
\* right and wrong passwords in any order; a login is also tried for a
\* client the bank does not have.
NextBank ==
    \/ \E c \in ClientIds, w \in Passwords : AddClient(c, w)
    \/ \E c \in ClientIds, w \in Passwords : AuthenticateClient(c, w)

SpecBank == InitPlain /\ [][NextBank]_vars

\* ------------------------------------------------------------- properties
\* The call just made was pop_ready and it returned a transaction.
Popped == ret.op = "pop_ready" /\ ret.tx # "none"

\* The heap entries of Pending transactions other than id.
LiveEntries(id) ==
    {e \in heap : e.tx_id # id /\ items[e.tx_id].status = PENDING}

\* C1 (as amended): pop_ready returns the Pending transaction that owns the
\* least live heap entry: no entry of another Pending transaction left in
\* the heap is scheduled earlier than the entry popped, and among entries
\* scheduled at the same time none has a strictly higher priority.
C1_EarliestThenPriority ==
    Popped =>
        \A e \in LiveEntries(ret.tx) :
            /\ ret.entry.scheduled_at <= e.scheduled_at
            /\ ret.entry.scheduled_at = e.scheduled_at =>
                   items[ret.tx].priority >= items[e.tx_id].priority

\* C1 witness: pop_ready returned a transaction ahead of one that was added
\* before it, is scheduled at the same time and has a lower priority.
C1_Witness ==
    /\ Popped
    /\ \E e \in LiveEntries(ret.tx) :
          /\ e.scheduled_at = ret.entry.scheduled_at
          /\ e.order < ret.entry.order
          /\ items[e.tx_id].priority < items[ret.tx].priority

\* C1 (as stated): of two ready Pending transactions the one with strictly
\* higher priority is returned first, whatever their scheduled_at: no
\* Pending transaction left in the heap is ready and has a strictly higher
\* priority than the one returned.
C1_PriorityAmongReady ==
    Popped =>
        \A e \in LiveEntries(ret.tx) :
            (e.scheduled_at <= ret.now /\
             items[e.tx_id].scheduled_at <= ret.now) =>
                items[e.tx_id].priority <= items[ret.tx].priority

\* C2: the transaction pop_ready(now) returns has scheduled_at <= now.
C2_PoppedIsDue == Popped => items[ret.tx].scheduled_at <= ret.now

\* C3: a transaction that is Processed, Failed or Cancelled keeps its
\* status in every step.
C3_TerminalIsFinal ==
    [][\A id \in DOMAIN items :
          items[id].status # PENDING =>
              items'[id].status = items[id].status]_vars

\* C4: pop_ready returns only Pending transactions; every entry it discards
\* belongs to a transaction that is not Pending; and it returns a
\* transaction whenever the heap holds a ready entry of a Pending one.
C4_StaleSkipped ==
    [][ret'.op = "pop_ready" =>
          /\ ret'.tx # "none" =>
                 /\ items[ret'.tx].status = PENDING
                 /\ ret'.entry \in heap
                 /\ ret'.entry.tx_id = ret'.tx
          /\ \A e \in heap \ heap' :
                 e = ret'.entry \/ items[e.tx_id].status # PENDING
          /\ (\E e \in heap : /\ e.scheduled_at <= ret'.now
                               /\ items[e.tx_id].status = PENDING)
                 => ret'.tx # "none"
          /\ items' = items]_vars

\* C4 witness: pop_ready discarded the entry of a Processed or Failed
\* transaction and returned the Pending transaction behind it.
C4_Witness ==
    /\ Popped
    /\ \E e \in ret.stale : items[e.tx_id].status \in {PROCESSED, FAILED}

\* C5: a transaction whose execution attempts all raise an unrecognised
\* error (its recipient is the object X) and that has been attempted at
\* least once ends Failed only with a temporary_error reason, after
\* max_retries + 1 attempts.
C5_TransientEndsTemporaryError ==
    \A id \in DOMAIN items :
        (/\ items[id].recipient = "X"
         /\ items[id].attempts >= 1
         /\ items[id].status = FAILED)
        => /\ items[id].failure_reason[1] = "temporary_error"
           /\ items[id].attempts = max_retries + 1

\* C6: when process_next(now) leaves the transaction it popped Pending (a
\* transient error within the retry budget), the transaction's scheduled_at
\* is now plus its attempt counter.
C6_BackoffFromNow ==
    (/\ ret.op = "process_next"
     /\ ret.tx # "none"
     /\ items[ret.tx].status = PENDING)
    => items[ret.tx].scheduled_at = ret.now + items[ret.tx].attempts

\* C7: a process_next whose risk assessment is High returns True and leaves
\* the transaction Failed with the risk-block reason followed by the
\* assessment's reasons; balances, the attempt counter, the sequence
\* counter and the error log are unchanged and no heap entry is pushed.
C7_HighBlocks ==
    [][(ret'.op = "process_next" /\ ret'.level = HIGH) =>
          /\ ret'.ok
          /\ ret'.tx \in DOMAIN items
          /\ items'[ret'.tx].status = FAILED
          /\ items'[ret'.tx].failure_reason =
                 <<"risk_blocked">> \o records'[Len(records')].reasons
          /\ Len(items'[ret'.tx].failure_reason) >= 2
          /\ items'[ret'.tx].attempts = items[ret'.tx].attempts
          /\ balance' = balance
          /\ heap' \subseteq heap
          /\ order_seq' = order_seq
          /\ error_log' = error_log]_vars

\* C7 witness: process_next has just blocked a transaction assessed High.
C7_Witness ==
    /\ ret.op = "process_next"
    /\ ret.level = HIGH
    /\ items[ret.tx].status = FAILED
    /\ items[ret.tx].failure_reason[1] = "risk_blocked"

\* C8: once a transaction is Cancelled no step changes it, no pop_ready or
\* process_next returns or executes it, and while every transaction of the
\* queue is Cancelled no balance changes.
C8_CancelledNeverRuns ==
    [][/\ \A id \in DOMAIN items :
             items[id].status = CANCELLED =>
                 /\ items'[id] = items[id]
                 /\ ret'.op \in {"pop_ready", "process_next"} =>
                        ret'.tx # id
       /\ (\A id \in DOMAIN items : items[id].status = CANCELLED)
             => balance' = balance]_vars

\* C8 witness: process_next has just discarded, without executing it, a
\* heap entry of a Cancelled transaction that had been retried before.
C8_Witness ==
    /\ ret.op = "process_next"
    /\ \E e \in ret.stale :
          /\ items[e.tx_id].status = CANCELLED
          /\ items[e.tx_id].attempts >= 1

\* C9: a cancel of an unknown id, or of a transaction that is Processed or
\* Cancelled, returns False and changes neither the id map (status and
\* failure reason included) nor the heap nor the sequence counter.
C9_CancelRefused ==
    [][(/\ ret'.op = "cancel"
        /\ \/ ret'.tx \notin DOMAIN items
           \/ items[ret'.tx].status \in {PROCESSED, CANCELLED}) =>
          /\ ~ret'.ok
          /\ items' = items
          /\ heap' = heap
          /\ order_seq' = order_seq]_vars

\* C9 witness: a second cancel, with another reason, has just been refused
\* and the transaction still carries the first cancel's reason.
C9_Witness ==
    /\ ret.op = "cancel"
    /\ ~ret.ok
    /\ ret.tx \in DOMAIN items
    /\ items[ret.tx].status = CANCELLED
    /\ items[ret.tx].failure_reason # <<ret.arg>>

\* The sequence number of the latest push of transaction id, among the
\* entries in the heap and the entry just popped.
LatestPush(id) ==
    LET orders == {e.order : e \in {f \in heap \cup {ret.entry} :
                                       f.tx_id = id}}
    IN  CHOOSE n \in orders : \A m \in orders : m <= n

\* C10: among Pending transactions with equal scheduled_at and priority,
\* pop_ready returns first the one whose latest push (by add or requeue)
\* is the earliest.
C10_FifoAcrossRequeue ==
    Popped =>
        \A e \in LiveEntries(ret.tx) :
            (/\ e.scheduled_at = items[ret.tx].scheduled_at
             /\ items[e.tx_id].scheduled_at = items[ret.tx].scheduled_at
             /\ ret.entry.scheduled_at = items[ret.tx].scheduled_at
             /\ items[e.tx_id].priority = items[ret.tx].priority)
            => LatestPush(ret.tx) < LatestPush(e.tx_id)
\* The call just made was a process_next whose execution of the popped
\* transaction raised one of the four unrecoverable errors.
RaisedTerminal(r) ==
    /\ r.op = "process_next"
    /\ r.err # NoErr
    /\ r.err[1] \in TerminalErrors

\* C11: when the execution raises AccountFrozenError, AccountClosedError,
\* InsufficientFundsError or InvalidOperationError, process_next marks the
\* transaction Failed with the error's message, appends exactly one entry
\* to error_log, returns True, leaves the attempt counter as it was and
\* pushes no heap entry.
C11_TerminalErrorFails ==
    [][RaisedTerminal(ret') =>
          /\ ret'.ok
          /\ items'[ret'.tx].status = FAILED
          /\ items'[ret'.tx].failure_reason = ret'.err
          /\ error_log' = Append(error_log, <<ret'.tx>> \o ret'.err)
          /\ items'[ret'.tx].attempts = items[ret'.tx].attempts
          /\ heap' \subseteq heap
          /\ order_seq' = order_seq
          /\ \A e \in heap' : e.tx_id # ret'.tx]_vars

\* A closed recipient made the second unrecoverable failure of the run.
C11_Witness ==
    /\ RaisedTerminal(ret)
    /\ ret.err[1] = "AccountClosedError"
    /\ items[ret.tx].status = FAILED
    /\ Len(error_log) = 2

\* The outcomes process_next leaves the popped transaction in when it
\* returns True.
LeftProcessed(old, new) == new.status = PROCESSED

LeftFailed(old, new) == new.status = FAILED

LeftForRetry(old, new, h, h2) ==
    /\ new.status = PENDING
    /\ new.attempts = old.attempts + 1
    /\ Cardinality(h2 \ h) = 1

\* C12 (as amended): process_next hands no error of the execution to its
\* caller.  It returns False having changed nothing but the heap, from
\* which only entries of transactions that are no longer Pending were
\* discarded; or it returns True and the popped transaction is Processed,
\* or Failed, or still Pending with one more attempt and one new heap entry.
C12_EveryOutcomeIsAStateChange ==
    [][ret'.op = "process_next" =>
          \/ /\ ~ret'.ok
             /\ ret'.tx = "none"
             /\ UNCHANGED <<items, order_seq, proc_vars>>
             /\ heap' \subseteq heap
             /\ \A e \in heap \ heap' : items[e.tx_id].status # PENDING
          \/ /\ ret'.ok
             /\ ret'.tx \in DOMAIN items
             /\ items[ret'.tx].status = PENDING
             /\ \/ LeftProcessed(items[ret'.tx], items'[ret'.tx])
                \/ LeftFailed(items[ret'.tx], items'[ret'.tx])
                \/ LeftForRetry(items[ret'.tx], items'[ret'.tx], heap, heap')
             /\ \A id \in DOMAIN items \ {ret'.tx} : items'[id] = items[id]
             /\ DOMAIN items' = DOMAIN items]_vars

\* A temporary error was converted into a retry: the transaction is Pending
\* again with one attempt and a fresh heap entry.
C12_Witness ==
    /\ ret.op = "process_next"
    /\ ret.ok
    /\ ret.err # NoErr
    /\ ~RaisedTerminal(ret)
    /\ items[ret.tx].status = PENDING
    /\ items[ret.tx].attempts = 1
    /\ \E e \in heap : e.tx_id = ret.tx

\* C12 as stated: a process_next that returns False changed no state at
\* all.
C12_FalseChangesNothing ==
    [][(ret'.op = "process_next" /\ ~ret'.ok) =>
          UNCHANGED <<items, heap, order_seq, proc_vars>>]_vars

\* run_all has just returned: the last process_next was made by run_all
\* and the loop is left.
RunAllReturned ==
    /\ ret.op = "process_next"
    /\ ret.via = "run_all"
    /\ ~run.active

\* C13 (as amended): when run_all(now, safety_limit) returns, it has
\* handled exactly safety_limit transactions, or no heap entry of a Pending
\* transaction is due at now; so when every Pending transaction has a heap
\* entry, all were ready and none was put back for a retry, list_pending()
\* is empty.
C13_RunAllDrainsQueued ==
    RunAllReturned =>
        /\ \/ ret.count = ret.limit
           \/ \A e \in heap :
                 items[e.tx_id].status = PENDING => e.scheduled_at > ret.now
        /\ ( /\ ret.count < ret.limit
             /\ \A id \in DOMAIN items :
                   /\ items[id].scheduled_at <= ret.now
                   /\ items[id].attempts = 0
                   /\ items[id].status = PENDING =>
                          \E e \in heap : e.tx_id = id )
           => list_pending = {}

\* run_all with the default limit handled one transaction and returned
\* while another, scheduled later, is still Pending in the heap.
C13_Witness ==
    /\ RunAllReturned
    /\ ret.count = 1
    /\ ret.limit = 1000
    /\ \E e \in heap :
          items[e.tx_id].status = PENDING /\ e.scheduled_at > ret.now
    /\ \E id \in DOMAIN items : items[id].status = PROCESSED

\* C13 as stated: when run_all returns short of its limit, every
\* transaction that is still Pending is scheduled after now.
C13_RunAllDrainsReady ==
    RunAllReturned =>
        \/ ret.count = ret.limit
        \/ \A id \in DOMAIN items :
              items[id].status = PENDING => items[id].scheduled_at > ret.now

\* C14: add(tx) with an id that is in the id map raises the duplicate-id
\* error and leaves the id map, the heap and the sequence counter as they
\* were, whatever the status of the transaction that has the id; add raises
\* for no other id, and no step removes an id from the map.
C14_DuplicateAddRefused ==
    [][/\ (ret'.op = "add" /\ ret'.tx \in DOMAIN items) =>
             /\ ~ret'.ok
             /\ UNCHANGED <<items, heap, order_seq>>
       /\ (ret'.op = "add" /\ ~ret'.ok) => ret'.tx \in DOMAIN items
       /\ DOMAIN items \subseteq DOMAIN items']_vars

\* An add was refused for the id of a Failed transaction whose heap entry
\* is gone, while the other transaction is Cancelled.
C14_Witness ==
    /\ ret.op = "add"
    /\ ~ret.ok
    /\ items[ret.tx].status = FAILED
    /\ \A e \in heap : e.tx_id # ret.tx
    /\ \E id \in DOMAIN items : items[id].status = CANCELLED

\* The audit level that belongs to a risk level, as the claim pairs them.
LevelMatches(audit, risk) ==
    /\ audit = "info" <=> risk = LOW
    /\ audit = "warning" <=> risk = MEDIUM
    /\ audit = "error" <=> risk = HIGH

\* C15: with a risk analyzer and an audit log, every process_next that pops
\* a transaction appends exactly one audit record, which carries the
\* transaction's id and the level Info, Warning or Error for the assessed
\* level Low, Medium or High; no other step changes the audit records, so
\* records are never modified or removed.
C15_OneAuditRecordPerPop ==
    [][(conf.risk /\ conf.audit) =>
          IF ret'.op = "process_next" /\ ret'.ok
          THEN /\ Len(records') = Len(records) + 1
               /\ SubSeq(records', 1, Len(records)) = records
               /\ records'[Len(records')].tx_id = ret'.tx
               /\ records'[Len(records')].level
                      \in {"info", "warning", "error"}
               /\ LevelMatches(records'[Len(records')].level, ret'.level)
          ELSE records' = records]_vars

\* The log holds an Info, a Warning and an Error record, the last one
\* written by the process_next just made.
C15_Witness ==
    /\ conf.risk /\ conf.audit
    /\ ret.op = "process_next"
    /\ ret.level = HIGH
    /\ Len(records) >= 3
    /\ records[Len(records)].level = "error"
    /\ \E i \in 1 .. Len(records) : records[i].level = "info"
    /\ \E i \in 1 .. Len(records) : records[i].level = "warning"

\* The rules of the risk analyzer that fired, read from the reasons.
Fired(reasons, rule) == \E i \in 1 .. Len(reasons) : reasons[i] = rule

\* The rules in the order assess evaluates them.
RuleOrder == <<"large_amount", "frequent", "new_recipient", "night">>

\* reasons lists rules of RuleOrder, each at most once, in that order.
InRuleOrder(reasons) ==
    \A i, j \in 1 .. Len(reasons) :
        i < j => \E k, l \in 1 .. Len(RuleOrder) :
                    k < l /\ reasons[i] = RuleOrder[k]
                          /\ reasons[j] = RuleOrder[l]

\* C16: assess returns High exactly when the large-amount rule (amount at
\* or above the currency's threshold) or the frequency rule fired, Medium
\* exactly when neither did and the novel-recipient or the night rule
\* fired, and Low otherwise; the reasons are the fired rules in the order
\* of evaluation.
C16_LevelFromRules ==
    ret.op = "assess" =>
        LET tx == items[ret.tx]
            large == Fired(ret.reasons, "large_amount")
            frequent == Fired(ret.reasons, "frequent")
            novel == Fired(ret.reasons, "new_recipient")
            night == Fired(ret.reasons, "night")
        IN  /\ large <=> tx.amount >= large_amount_threshold[tx.currency]
            /\ night <=> is_night(ret.now)
            /\ ret.level = HIGH <=> (large \/ frequent)
            /\ ret.level = MEDIUM <=>
                   (~large /\ ~frequent /\ (novel \/ night))
            /\ ret.level = LOW <=>
                   (~large /\ ~frequent /\ ~novel /\ ~night)
            /\ InRuleOrder(ret.reasons)
            /\ \A i \in 1 .. Len(ret.reasons) :
                   Fired(RuleOrder, ret.reasons[i])

\* An amount equal to the threshold was assessed High although the
\* novel-recipient and the night rule fired after the large-amount rule.
C16_Witness ==
    /\ ret.op = "assess"
    /\ items[ret.tx].amount = large_amount_threshold[items[ret.tx].currency]
    /\ ret.level = HIGH
    /\ ret.reasons = <<"large_amount", "new_recipient", "night">>

\* The call of assess just made, and the calls made so far for its sender.
LastCall == assessed[Len(assessed)]

CallsOfSender == {i \in 1 .. Len(assessed) : assessed[i].sender = LastCall.sender}

\* The calls for the sender whose time stamp lies in [now - window, now].
CallsInWindow ==
    {i \in CallsOfSender :
        /\ LastCall.now - frequency_window_seconds <= assessed[i].now
        /\ assessed[i].now <= LastCall.now}

\* The assessments of the sender were made at times that never decrease.
SenderTimesAscend ==
    \A i, j \in CallsOfSender : i < j => assessed[i].now <= assessed[j].now

\* What the claim says of the frequency rule after a call of assess.
FrequencyRuleExact ==
    /\ LastCall.sender # "" =>
          /\ Fired(ret.reasons, "frequent") <=>
                 Cardinality(CallsInWindow) >= frequency_limit
          /\ \A k \in 1 .. Len(history[LastCall.sender]) :
                 history[LastCall.sender][k]
                     >= LastCall.now - frequency_window_seconds
    /\ LastCall.sender = "" => ~Fired(ret.reasons, "frequent")

\* C17 (as amended): when the assessments of a sender are made at times
\* that never decrease, assess reports frequent operations exactly when at
\* least frequency_limit assessments of the sender, the current one
\* included, have a time stamp in [now - window, now]; every assessment
\* counts, and the time stamps before now - window are dropped.
C17_FrequencyInWindow ==
    (ret.op = "assess" /\ SenderTimesAscend) => FrequencyRuleExact

\* The third assessment within the window, the first one made exactly
\* window seconds before, was reported frequent; or a fourth one was not,
\* the earlier ones having left the window.
C17_Witness ==
    /\ ret.op = "assess"
    /\ SenderTimesAscend
    /\ LastCall.sender = "A"
    /\ LastCall.now = frequency_window_seconds
    /\ Cardinality(CallsInWindow) = frequency_limit
    /\ \E i \in CallsInWindow : assessed[i].now = 0
    /\ Fired(ret.reasons, "frequent")

\* C17 as stated: whatever the times of the assessments.
C17_FrequencyAnyTimes ==
    ret.op = "assess" => FrequencyRuleExact

\* The earlier calls of assess for the sender and recipient of the last.
EarlierCallsOfPair ==
    {i \in 1 .. Len(assessed) - 1 :
        /\ assessed[i].sender = LastCall.sender
        /\ assessed[i].recipient = LastCall.recipient}

\* The recipients with an id the sender s with an id was assessed with.
RecipientsOf(s) ==
    {assessed[i].recipient : i \in {k \in 1 .. Len(assessed) :
        /\ assessed[k].sender = s
        /\ assessed[k].sender # ""
        /\ assessed[k].recipient # ""}}

\* C19: for a sender and a recipient with ids, assess reports a new
\* recipient exactly on the first assessment of the pair; the recipient is
\* remembered whatever the level of that assessment was, and is never
\* forgotten: the known recipients of a sender are all the recipients it
\* was ever assessed with.
C19_NewRecipientOnce ==
    ret.op = "assess" =>
        /\ Fired(ret.reasons, "new_recipient") <=>
               /\ LastCall.sender # ""
               /\ LastCall.recipient # ""
               /\ EarlierCallsOfPair = {}
        /\ \A s \in AccountIds : known_recipients[s] = RecipientsOf(s)

\* The only transaction, of a large amount, was assessed twice, more than
\* a window apart: the first assessment was High, the time stamp of the
\* first has left the history, and the recipient is not new any more.
C19_Witness ==
    /\ ret.op = "assess"
    /\ DOMAIN items = {ret.tx}
    /\ is_large(items[ret.tx].amount, items[ret.tx].currency)
    /\ Len(assessed) = 2
    /\ assessed[1].now = 0
    /\ LastCall.now = frequency_window_seconds + 1
    /\ LastCall.sender = "A" /\ LastCall.recipient = "B"
    /\ history["A"] = <<frequency_window_seconds + 1>>
    /\ ~Fired(ret.reasons, "new_recipient")

\* The first run_all that was called on the three queued transfers has
\* returned: every assessment made so far was made by it.
FirstRunAllReturned ==
    /\ RunAllReturned
    /\ DOMAIN items = FrequentIds
    /\ Len(assessed) = ret.count

\* C18: with frequency_limit 3 and a window of 60 seconds, when three
\* small transfers from one sender to one recipient are queued with
\* scheduled times within one window and run_all is called, two of them
\* end Processed and the third ends Failed, blocked for frequent
\* operations, and the audit log holds a Warning and an Error record.
C18_ThirdTransferBlocked ==
    FirstRunAllReturned =>
        /\ Cardinality({id \in FrequentIds :
                           items[id].status = PROCESSED}) = 2
        /\ \E id \in FrequentIds :
              /\ items[id].status = FAILED
              /\ items[id].failure_reason = <<"risk_blocked", "frequent">>
        /\ \E i \in 1 .. Len(records) : records[i].level = "warning"
        /\ \E i \in 1 .. Len(records) : records[i].level = "error"

\* What process_next of a processor without risk analyzer makes of the
\* popped transaction id: the transaction, the balances and the error_log
\* it leaves.
PlainOutcome(id) ==
    LET tx == items[id]
        x == process_transaction(tx, balance)
    IN  IF x.err = NoErr
        THEN [tx |-> [tx EXCEPT !.status = PROCESSED,
                                !.failure_reason = NoReason],
              bal |-> x.bal, log |-> error_log]
        ELSE IF x.err[1] \in TerminalErrors
        THEN [tx |-> [tx EXCEPT !.status = FAILED, !.failure_reason = x.err],
              bal |-> x.bal, log |-> Append(error_log, <<id>> \o x.err)]
        ELSE IF tx.attempts + 1 > max_retries
        THEN [tx |-> [tx EXCEPT !.status = FAILED,
                                !.attempts = @ + 1,
                                !.failure_reason =
                                    <<"temporary_error">> \o x.err],
              bal |-> x.bal,
              log |-> Append(error_log, <<id, "temporary_error">> \o x.err)]
        ELSE [tx |-> [tx EXCEPT !.attempts = @ + 1,
                                !.scheduled_at = clock + tx.attempts + 1],
              bal |-> x.bal, log |-> error_log]

\* C20: a processor without risk analyzer applies no risk gate and writes
\* no audit record; and a process_next whose analyzer assesses the popped
\* transaction Low or Medium leaves the transaction (status, failure
\* reason, attempts), the balances and the error_log as a processor without
\* analyzer leaves them.
C20_AnalyzerIsOptional ==
    [][/\ ~conf.risk =>
             /\ records' = << >>
             /\ UNCHANGED <<history, known_recipients, assessed>>
             /\ ret'.op = "process_next" => ret'.level = "none"
             /\ (ret'.op = "process_next" /\ ret'.ok) =>
                    /\ items'[ret'.tx] = PlainOutcome(ret'.tx).tx
                    /\ balance' = PlainOutcome(ret'.tx).bal
                    /\ error_log' = PlainOutcome(ret'.tx).log
       /\ (conf.risk /\ ret'.op = "process_next" /\ ret'.ok
              /\ ret'.level \in {LOW, MEDIUM}) =>
             /\ items'[ret'.tx] = PlainOutcome(ret'.tx).tx
             /\ balance' = PlainOutcome(ret'.tx).bal
             /\ error_log' = PlainOutcome(ret'.tx).log]_vars

\* A processor with analyzer assessed a transaction Medium and then
\* failed it for insufficient funds, as a processor without analyzer does.
C20_Witness ==
    /\ conf.risk
    /\ ret.op = "process_next"
    /\ ret.level = MEDIUM
    /\ RaisedTerminal(ret)
    /\ ret.err[1] = "InsufficientFundsError"
    /\ items[ret.tx].status = FAILED
    /\ Len(error_log) = 1

\* The process_next just made executed the transaction it popped: it was
\* not blocked by the risk gate.
Executed(r) == r.op = "process_next" /\ r.ok /\ r.level # HIGH

\* amount converted from the transaction's currency to that of account a,
\* where the pair has a rate.
InCurrencyOf(a, tx, amount) == convert(amount, tx.currency, Account[a].currency).value

\* fixed fee + external surcharge
TotalFee(tx) ==
    tx.fee_fixed + (IF tx.is_external THEN external_fee_fixed ELSE 0)

\* What the withdraw calls of an internal transfer cost a premium sender
\* on top of their arguments: withdraw_fee_fixed for the principal, and
\* once more for the fee when there is one.
OwnWithdrawFees(tx) ==
    IF Account[tx.sender].kind = "premium"
    THEN Account[tx.sender].withdraw_fee_fixed
            * (IF InCurrencyOf(tx.sender, tx, TotalFee(tx)) > 0 THEN 2 ELSE 1)
    ELSE 0

\* The process_next just made executed and processed an internal transfer.
ProcessedInternal(tx, r, new) ==
    /\ Executed(r)
    /\ new.status = PROCESSED
    /\ tx.sender # "none"
    /\ tx.recipient # "none"

\* C21 (as amended): a processed internal transfer takes from the sender's
\* balance the amount plus the total fee, both in the sender's currency,
\* plus the fee a premium sender charges on each of its withdraw calls, and
\* adds the amount, in the recipient's currency, to the recipient's
\* balance; the fee is credited to nobody and no other balance changes.
C21_InternalTransferMoves ==
    [][LET tx == items[ret'.tx]
           debit == InCurrencyOf(tx.sender, tx, tx.amount)
                    + InCurrencyOf(tx.sender, tx, TotalFee(tx))
                    + OwnWithdrawFees(tx)
           credit == InCurrencyOf(tx.recipient, tx, tx.amount)
           debited == [balance EXCEPT ![tx.sender] = @ - debit]
       IN  ProcessedInternal(tx, ret', items'[ret'.tx]) =>
               balance' = [debited EXCEPT ![tx.recipient] = @ + credit]]_vars

\* A transfer of 10 with fee 1 from the premium account that charges 5 on
\* every withdraw was processed: the sender lost 21, the recipient got 10.
C21_Witness ==
    /\ Executed(ret)
    /\ items[ret.tx].status = PROCESSED
    /\ items[ret.tx].sender = "Q"
    /\ items[ret.tx].recipient = "A"
    /\ balance["Q"] = Account["Q"].opening - 21
    /\ balance["A"] = Account["A"].opening + 10

\* C21 as stated: the sender's balance decreases by exactly the amount plus
\* the total fee.
C21_InternalTransferBalances ==
    [][LET tx == items[ret'.tx]
           debit == InCurrencyOf(tx.sender, tx, tx.amount)
                    + InCurrencyOf(tx.sender, tx, TotalFee(tx))
           credit == InCurrencyOf(tx.recipient, tx, tx.amount)
           debited == [balance EXCEPT ![tx.sender] = @ - debit]
       IN  ProcessedInternal(tx, ret', items'[ret'.tx]) =>
               balance' = [debited EXCEPT ![tx.recipient] = @ + credit]]_vars

\* C22: the total fee of an operation is its fixed fee, plus the external
\* surcharge when it is flagged external.  A processed external credit
\* (no sender) deposits the amount less the total fee, in the recipient's
\* currency; a processed external debit (no recipient) withdraws the amount
\* plus the total fee, in the sender's currency, from the sender, whose
\* balance falls by that much where its withdraw charges no fee of its own.
C22_ExternalCreditAndDebit ==
    [][LET tx == items[ret'.tx]
           fee == TotalFee(tx)
       IN  (Executed(ret') /\ items'[ret'.tx].status = PROCESSED) =>
             /\ (tx.sender = "none" /\ tx.recipient # "none") =>
                    balance' = [balance EXCEPT ![tx.recipient] =
                        @ + InCurrencyOf(tx.recipient, tx, tx.amount - fee)]
             /\ (tx.recipient = "none" /\ tx.sender # "none") =>
                    /\ balance' =
                          withdraw(tx.sender,
                                   InCurrencyOf(tx.sender, tx, tx.amount + fee),
                                   balance).bal
                    /\ \A a \in AccountIds \ {tx.sender} :
                          balance'[a] = balance[a]
                    /\ Account[tx.sender].withdraw_fee_fixed = 0 =>
                          balance'[tx.sender] = balance[tx.sender]
                            - InCurrencyOf(tx.sender, tx, tx.amount + fee)]_vars

\* An external credit of 300 RUB with fixed fee 99 and the surcharge 1 put
\* 2 USD on B, and an external debit of 100 RUB with the surcharge took 101
\* from A.
C22_Witness ==
    /\ Executed(ret)
    /\ \A id \in TxIds :
          id \in DOMAIN items /\ items[id].status = PROCESSED
                               /\ items[id].is_external
    /\ balance["B"] = Account["B"].opening + 2
    /\ balance["A"] = Account["A"].opening - 101

\* The process_next just made executed an external credit whose total fee
\* is at least its amount.
CreditEatenByFee(tx, r) ==
    /\ Executed(r)
    /\ tx.sender = "none"
    /\ tx.recipient # "none"
    /\ TotalFee(tx) >= tx.amount

\* C23: an external credit whose total fee is at least its amount ends
\* Failed and leaves every balance as it was, without a retry; the reason
\* is the InvalidOperation error of the fee check when the recipient is
\* active (the error of the status check when it is frozen or closed).
C23_FeeNotBelowAmountFails ==
    [][LET tx == items[ret'.tx]
       IN  CreditEatenByFee(tx, ret') =>
             /\ items'[ret'.tx].status = FAILED
             /\ items'[ret'.tx].attempts = tx.attempts
             /\ balance' = balance
             /\ Account[tx.recipient].status = "active" =>
                    items'[ret'.tx].failure_reason =
                        <<"InvalidOperationError", "credit_after_fee">>
             /\ Account[tx.recipient].status # "active" =>
                    items'[ret'.tx].failure_reason[1]
                        \in {"AccountFrozenError", "AccountClosedError"}]_vars

\* An external credit of 1 RUB with the surcharge 1 to the active account
\* A has failed on the fee check and A holds its opening balance.
C23_Witness ==
    /\ Executed(ret)
    /\ items[ret.tx].sender = "none"
    /\ items[ret.tx].recipient = "A"
    /\ TotalFee(items[ret.tx]) = items[ret.tx].amount
    /\ items[ret.tx].status = FAILED
    /\ items[ret.tx].failure_reason[1] = "InvalidOperationError"
    /\ balance["A"] = Account["A"].opening

\* The account, if any, is frozen or closed.
Inactive(a) == a # "none" /\ Account[a].status \in {"frozen", "closed"}

\* The error class that belongs to the status of an inactive account.
StatusError(a) ==
    IF Account[a].status = "frozen" THEN "AccountFrozenError"
    ELSE "AccountClosedError"

\* C24: an executed transaction of a positive amount whose sender or
\* recipient is frozen or closed ends Failed with the AccountFrozen or
\* AccountClosed reason of that account (of the sender when both are
\* inactive), is not retried, and no balance changes.
C24_InactiveAccountFails ==
    [][LET tx == items[ret'.tx]
           culprit == IF Inactive(tx.sender) THEN tx.sender ELSE tx.recipient
       IN  (/\ Executed(ret')
            /\ tx.amount > 0
            /\ Inactive(tx.sender) \/ Inactive(tx.recipient)) =>
             /\ items'[ret'.tx].status = FAILED
             /\ items'[ret'.tx].failure_reason =
                    <<StatusError(culprit), "processor">>
             /\ items'[ret'.tx].attempts = tx.attempts
             /\ balance' = balance]_vars

\* A transfer from the active account A to the closed account C has failed
\* as AccountClosed with both balances as they were, and a transfer from the
\* frozen account F has failed as AccountFrozen.
C24_Witness ==
    /\ \E id \in DOMAIN items :
          /\ items[id].sender = "A" /\ items[id].recipient = "C"
          /\ items[id].status = FAILED
          /\ items[id].failure_reason[1] = "AccountClosedError"
    /\ \E id \in DOMAIN items :
          /\ items[id].sender = "F"
          /\ items[id].status = FAILED
          /\ items[id].failure_reason[1] = "AccountFrozenError"
    /\ \A a \in DOMAIN balance : balance[a] = Account[a].opening

\* A rate from the transaction's currency to the account's is at hand.
HasRate(a, tx) ==
    \/ tx.currency = Account[a].currency
    \/ <<tx.currency, Account[a].currency>> \in DOMAIN rates

\* The process_next just made executed an internal transfer between active
\* accounts whose sender has no overdraft and holds less than the amount
\* plus the total fee, both in the sender's currency.
Overdrawn(tx, r, bal) ==
    /\ Executed(r)
    /\ tx.amount > 0
    /\ tx.sender # "none" /\ tx.recipient # "none"
    /\ ~Inactive(tx.sender) /\ ~Inactive(tx.recipient)
    /\ Account[tx.sender].kind # "premium"
    /\ HasRate(tx.sender, tx)
    /\ InCurrencyOf(tx.sender, tx, tx.amount)
          + InCurrencyOf(tx.sender, tx, TotalFee(tx)) > bal[tx.sender]

\* C25: an internal transfer from a sender without overdraft whose amount
\* plus fee, in the sender's currency, exceeds the sender's balance ends
\* Failed as InsufficientFunds, unretried, and no balance changes.
C25_OverdrawnTransferFails ==
    [][LET tx == items[ret'.tx]
       IN  Overdrawn(tx, ret', balance) =>
             /\ items'[ret'.tx].status = FAILED
             /\ items'[ret'.tx].failure_reason =
                    <<"InsufficientFundsError", "processor">>
             /\ items'[ret'.tx].attempts = tx.attempts
             /\ balance' = balance]_vars

\* A transfer of 1000 RUB with fee 1 from A, which holds exactly 1000 RUB,
\* has failed as InsufficientFunds and A still holds 1000 RUB.
C25_Witness ==
    /\ Executed(ret)
    /\ items[ret.tx].sender = "A"
    /\ items[ret.tx].recipient = "P"
    /\ items[ret.tx].amount = 1000
    /\ items[ret.tx].fee_fixed = 1
    /\ items[ret.tx].status = FAILED
    /\ items[ret.tx].failure_reason[1] = "InsufficientFundsError"
    /\ balance["A"] = 1000
    /\ balance["P"] = Account["P"].opening

\* The transaction names neither a sender nor a recipient.
Neither(tx) == tx.sender = "none" /\ tx.recipient = "none"

\* C26: add refuses a transaction only for its id, so one without sender
\* and recipient enters the queue Pending like any other; the
\* process_next that executes it ends it Failed, unretried and with no
\* balance changed, for the invalid configuration when its amount is
\* positive (for the amount otherwise).
C26_NeitherPartyFailsAtProcessing ==
    [][/\ (ret' # ret /\ ret'.op = "add") =>
             /\ ret'.ok <=> ~is_duplicate(ret'.tx, items)
             /\ ret'.ok => items'[ret'.tx].status = PENDING
       /\ (Executed(ret') /\ Neither(items[ret'.tx])) =>
             /\ items[ret'.tx].status = PENDING
             /\ items'[ret'.tx].status = FAILED
             /\ items'[ret'.tx].attempts = 0
             /\ balance' = balance
             /\ items'[ret'.tx].failure_reason =
                    <<"InvalidOperationError",
                      IF items[ret'.tx].amount > 0 THEN "configuration"
                      ELSE "amount">>]_vars

\* A transaction of 100 RUB without sender and recipient was added and has
\* then failed for its configuration without a retry.
C26_Witness ==
    /\ Executed(ret)
    /\ Neither(items[ret.tx])
    /\ items[ret.tx].amount = 100
    /\ items[ret.tx].status = FAILED
    /\ items[ret.tx].attempts = 0
    /\ items[ret.tx].failure_reason =
          <<"InvalidOperationError", "configuration">>

\* The accounts the transaction names.
Parties(tx) == {tx.sender, tx.recipient} \ {"none"}

\* The amount in another currency by the rate registered for the ordered
\* pair, and the amount itself within one currency.
Rated(amount, cur_from, cur_to) ==
    IF cur_from = cur_to THEN amount
    ELSE (amount * rates[<<cur_from, cur_to>>].num)
            \div rates[<<cur_from, cur_to>>].den

OverLimit(a, amount, b) ==
    b - (amount + Account[a].withdraw_fee_fixed)
        < 0 - Account[a].overdraft_limit

\* The process_next just made executed an internal transfer with a fee
\* between active accounts whose sender is a premium account.
PremiumTransferWithFee(tx, r) ==
    /\ Executed(r)
    /\ tx.amount > 0
    /\ tx.sender # "none" /\ tx.recipient # "none"
    /\ ~Inactive(tx.sender) /\ ~Inactive(tx.recipient)
    /\ Account[tx.sender].kind = "premium"
    /\ HasRate(tx.sender, tx)
    /\ InCurrencyOf(tx.sender, tx, TotalFee(tx)) > 0

\* C28: a premium sender is debited by a withdraw of the principal and
\* then a withdraw of the fee. When the overdraft limit admits the first
\* and not the second, the transaction ends Failed as InsufficientFunds
\* raised by the account, the sender stays debited by the principal (and
\* the account's own fee for that withdraw) and nothing else changes; when
\* the limit does not admit the principal no balance changes.
C28_PrincipalThenFee ==
    [][LET tx == items[ret'.tx]
           s == tx.sender
           principal == InCurrencyOf(s, tx, tx.amount)
           fee == InCurrencyOf(s, tx, TotalFee(tx))
           after == balance[s] - principal - Account[s].withdraw_fee_fixed
       IN  PremiumTransferWithFee(tx, ret') =>
             /\ (~OverLimit(s, principal, balance[s])
                   /\ OverLimit(s, fee, after)) =>
                   /\ items'[ret'.tx].status = FAILED
                   /\ items'[ret'.tx].attempts = tx.attempts
                   /\ items'[ret'.tx].failure_reason =
                          <<"InsufficientFundsError", "overdraft">>
                   /\ balance' = [balance EXCEPT ![s] = after]
             /\ OverLimit(s, principal, balance[s]) =>
                   /\ items'[ret'.tx].status = FAILED
                   /\ items'[ret'.tx].failure_reason =
                          <<"InsufficientFundsError", "overdraft">>
                   /\ balance' = balance]_vars

\* A transfer of 100 RUB with fee 1 from P, which holds 0 RUB under an
\* overdraft limit of 100, has failed as InsufficientFunds; P is left at
\* -100 and A at its opening balance.
C28_Witness ==
    /\ Executed(ret)
    /\ items[ret.tx].sender = "P"
    /\ items[ret.tx].recipient = "A"
    /\ items[ret.tx].amount = 100
    /\ items[ret.tx].fee_fixed = 1
    /\ items[ret.tx].status = FAILED
    /\ items[ret.tx].failure_reason[1] = "InsufficientFundsError"
    /\ balance["P"] = 0 - 100
    /\ balance["A"] = Account["A"].opening

\* C29: in every state each transaction of the queue has a failure_reason
\* exactly when it is Failed or Cancelled; a Pending one, also one put
\* back after a temporary error, and a Processed one have none.
C29_ReasonIffFailedOrCancelled ==
    \A id \in DOMAIN items :
        (items[id].failure_reason # NoReason)
            <=> (items[id].status \in {FAILED, CANCELLED})

\* One transaction is Pending again after a temporary error, without a
\* reason, and another has failed with one.
C29_Witness ==
    \E id, other \in DOMAIN items :
        /\ items[id].status = PENDING
        /\ items[id].attempts > 0
        /\ items[id].failure_reason = NoReason
        /\ items[other].status = FAILED
        /\ items[other].failure_reason # NoReason

\* The transactions of the id map with the given status.
WithStatus(its, st) == {id \in DOMAIN its : its[id].status = st}

\* What holds of len(queue): in every state it is the number of Pending
\* transactions of the id map and the length of list_pending(), whatever
\* the heap holds. A step changes it by the transactions added minus those
\* that left Pending for Cancelled, Processed or Failed; a requeue, by hand
\* or by the processor after a temporary error, leaves it as it was.
C30_LenCountsPending ==
    [][/\ QueueLen = Cardinality(WithStatus(items, PENDING))
       /\ QueueLen = Cardinality(list_pending)
       /\ QueueLen' = Cardinality(WithStatus(items', PENDING))
       /\ QueueLen' = QueueLen
             + Cardinality(DOMAIN items' \ DOMAIN items)
             - Cardinality(WithStatus(items, PENDING)
                 \cap (WithStatus(items', CANCELLED)
                         \cup WithStatus(items', PROCESSED)
                         \cup WithStatus(items', FAILED)))
       /\ (ret' # ret /\ ret'.op = "requeue") => QueueLen' = QueueLen
       /\ (\E id \in DOMAIN items :
              /\ items'[id].attempts > items[id].attempts
              /\ items'[id].status = PENDING) => QueueLen' = QueueLen]_vars

\* One transaction was cancelled and the other, Pending, was requeued by
\* hand: the heap holds three entries and len(queue) is 1.
C30_Witness ==
    /\ ret.op = "requeue" /\ ret.ok
    /\ WithStatus(items, CANCELLED) # {}
    /\ Cardinality(heap) = 3
    /\ QueueLen = 1
    /\ Cardinality(list_pending) = 1

\* C30: len(queue) is the number of Pending transactions and the length
\* of list_pending() in every state, does not change on a requeue, and
\* falls by one whenever a transaction is cancelled, processed or failed.
C30_LenFallsOnEveryOutcome ==
    [][/\ QueueLen = Cardinality(WithStatus(items, PENDING))
       /\ QueueLen = Cardinality(list_pending)
       /\ (ret' # ret /\ ret'.op = "requeue") => QueueLen' = QueueLen
       /\ \A id \in DOMAIN items :
             (/\ items'[id].status # items[id].status
              /\ items'[id].status \in {CANCELLED, PROCESSED, FAILED}) =>
                 QueueLen' < QueueLen]_vars

\* C31: requeue of a transaction that is not Pending changes nothing: no
\* heap entry, no step of the sequence counter, the same scheduled_at. A
\* requeue of a Pending transaction pushes exactly one new heap entry, for
\* that transaction at its scheduled_at, and with delay 0 the scheduled_at
\* is the one it had.
C31_RequeueFrame ==
    [][/\ (ret' # ret /\ ret'.op = "requeue") =>
             IF items[ret'.tx].status # PENDING
             THEN /\ ~ret'.ok
                  /\ heap' = heap
                  /\ order_seq' = order_seq
                  /\ items' = items
             ELSE /\ ret'.ok
                  /\ ret'.entry \notin heap
                  /\ heap' = heap \cup {ret'.entry}
                  /\ order_seq' = order_seq + 1
                  /\ ret'.entry.tx_id = ret'.tx
                  /\ ret'.entry.order = order_seq'
                  /\ ret'.entry.scheduled_at = items'[ret'.tx].scheduled_at
       /\ \A id \in DOMAIN items :
             (Requeue(id, 0) /\ items[id].status = PENDING) =>
                 /\ items' = items
                 /\ Cardinality(heap') = Cardinality(heap) + 1]_vars

\* A Pending transaction scheduled at 1 was requeued with delay 0 when the
\* wall clock stood at 0: the heap holds two entries for it, both at 1.
C31_Witness ==
    /\ ret.op = "requeue" /\ ret.ok
    /\ clock = 0
    /\ items[ret.tx].scheduled_at = 1
    /\ ret.entry.scheduled_at = 1
    /\ Cardinality({e \in heap : e.tx_id = ret.tx /\ e.scheduled_at = 1}) = 2

\* The class of an error, "none" when the call returned.
ErrClass(e) == IF e = NoErr THEN "none" ELSE e[1]

\* The account is frozen or closed.
Blocked(a) == Account[a].status \in {"frozen", "closed"}

\* C32: deposit and withdraw on a frozen account raise AccountFrozenError,
\* on a closed one AccountClosedError, and on an active account
\* InvalidOperationError for an amount that is zero, negative or no
\* number; every call that raises leaves all balances as they were, and a
\* deposit that returns raises the balance by exactly the amount.
C32_AccountCallsChecked ==
    [][\A a \in RealAccounts, n \in AccountAmounts :
         (AccountDeposit(a, n) \/ AccountWithdraw(a, n)) =>
           /\ (Blocked(a) /\ n > 0) =>
                 ErrClass(ret'.err) = StatusError(a)
           /\ (~Blocked(a) /\ n <= 0) =>
                 ErrClass(ret'.err) = "InvalidOperationError"
           /\ (Blocked(a) /\ n <= 0) =>
                 ErrClass(ret'.err) \in {StatusError(a), "InvalidOperationError"}
           /\ ret'.err # NoErr => balance' = balance
           /\ (AccountDeposit(a, n) /\ ~Blocked(a) /\ n > 0) =>
                 /\ ret'.err = NoErr
                 /\ balance' = [balance EXCEPT ![a] = @ + n]]_vars

\* A deposit of 100 on A was followed by a withdraw of an amount that is no
\* number, which raised InvalidOperationError and left the 1100 in place.
C32_Witness ==
    /\ ret.op = "withdraw"
    /\ ret.arg = "A"
    /\ ret.err = <<"InvalidOperationError", "account_not_a_number">>
    /\ balance["A"] = Account["A"].opening + 100

\* The lowest balance the account's class allows.
Floor(a) ==
    IF Account[a].kind = "premium" THEN 0 - Account[a].overdraft_limit
    ELSE IF Account[a].kind = "savings" THEN Account[a].min_balance
    ELSE 0

\* What a withdraw of the amount takes from the account.
Debit(a, amount) ==
    IF Account[a].kind = "premium"
    THEN amount + Account[a].withdraw_fee_fixed
    ELSE amount

\* C33: whatever deposits and withdraws were made, no balance is below the
\* floor of its account: 0 for a base account, -overdraft_limit for a
\* premium account, min_balance for a savings account that opened at or
\* above it. A withdraw of a valid amount from an active account raises
\* InsufficientFundsError and changes nothing when the balance less the
\* debit (for a premium account the amount plus withdraw_fee_fixed) would
\* be below the floor, and takes exactly the debit otherwise.
C33_BalanceAboveFloor ==
    [][/\ \A a \in RealAccounts :
             balance[a] >= Floor(a) /\ balance'[a] >= Floor(a)
       /\ \A a \in RealAccounts, n \in AccountAmounts :
             (AccountWithdraw(a, n) /\ ~Blocked(a) /\ n > 0) =>
                IF balance[a] - Debit(a, n) < Floor(a)
                THEN /\ ErrClass(ret'.err) = "InsufficientFundsError"
                     /\ balance' = balance
                ELSE /\ ret'.err = NoErr
                     /\ balance' = [balance EXCEPT ![a] = @ - Debit(a, n)]]_vars

\* The premium account Q, which charges 5 on every withdraw, stands at its
\* overdraft limit of -100, and a further withdraw has raised
\* InsufficientFundsError.
C33_Witness ==
    /\ ret.op = "withdraw"
    /\ ret.arg = "Q"
    /\ ErrClass(ret.err) = "InsufficientFundsError"
    /\ balance["Q"] = 0 - Account["Q"].overdraft_limit

AttemptFailed(old, new, r) ==
    /\ r.op = "process_next" /\ r.ok
    /\ \/ new[r.tx].status = FAILED
       \/ /\ new[r.tx].status = PENDING
          /\ new[r.tx].attempts > old[r.tx].attempts

\* C35: a process_next that leaves its transaction Failed, or Pending
\* after a temporary error, leaves every balance as it was before the
\* call.
C35_AllOrNothing ==
    [][AttemptFailed(items, items', ret') => balance' = balance]_vars

\* The sum of amount plus total fee over the given transactions.
RECURSIVE SumDue(_, _)
SumDue(its, ids) ==
    IF ids = {} THEN 0
    ELSE LET id == CHOOSE x \in ids : TRUE
         IN  its[id].amount + TotalFee(its[id]) + SumDue(its, ids \ {id})

\* The transactions of the queue that name the account as sender.
SentBy(a) == {id \in DOMAIN items : items[id].sender = a}

\* C36: over all attempts of a transaction its sender is debited at most
\* once: an account that only sends, in its own currency, never holds less
\* than its opening balance minus amount and fee of each of its
\* transactions.
C36_DebitedAtMostOnce ==
    \A a \in RealAccounts :
        (\A id \in DOMAIN items :
            /\ items[id].recipient # a
            /\ items[id].sender = a =>
                  items[id].currency = Account[a].currency) =>
            balance[a] >= Account[a].opening - SumDue(items, SentBy(a))

\* C37: a retry is not blocked by the risk gate for the transaction's own
\* earlier attempts: when the queue holds no other transaction of the
\* same sender, a process_next that takes up a transaction after a
\* temporary error does not assess it as High.
C37_RetryKeepsRiskOutcome ==
    [][(/\ ret'.op = "process_next" /\ ret'.ok
        /\ ret' # ret
        /\ items[ret'.tx].attempts >= 1
        /\ \A id \in DOMAIN items \ {ret'.tx} :
              items[id].sender # items[ret'.tx].sender) =>
          ret'.level # HIGH]_vars

\* The heap entries of transaction id.
EntriesOf(id) == {e \in heap : e.tx_id = id}

\* C38: under add, cancel, process_next and run_all, after every operation
\* the heap holds exactly one entry for each Pending transaction, and that
\* entry is scheduled at the transaction's scheduled_at.
C38_OneEntryPerPending ==
    \A id \in DOMAIN items :
        items[id].status = PENDING =>
            /\ Cardinality(EntriesOf(id)) = 1
            /\ \A e \in EntriesOf(id) :
                  e.scheduled_at = items[id].scheduled_at

\* A transaction is Pending again after a temporary error and rescheduled,
\* while the entry of a cancelled transaction is still on the heap.
C38_Witness ==
    /\ ~run.active
    /\ \E id \in DOMAIN items :
          /\ items[id].status = PENDING
          /\ items[id].attempts >= 1
          /\ \E e \in EntriesOf(id) : e.scheduled_at > 0
    /\ \E e \in heap : items[e.tx_id].status = CANCELLED

\* The transactions that reached a final status.
Terminal(its, id) == its[id].status \in {PROCESSED, FAILED, CANCELLED}

\* C39: run_all ends without its safety limit.  Every process_next that
\* returns True either ends its transaction or counts one more attempt of
\* it, within max_retries; so inside one run_all the number of True
\* returns never exceeds n * (max_retries + 1) for the n transactions of
\* the queue, also when a retried transaction is due again at the now of
\* that run_all.
C39_RunAllBounded ==
    [][(ret'.op = "process_next" /\ ret'.ok) =>
          /\ \/ Terminal(items', ret'.tx)
             \/ /\ items'[ret'.tx].attempts = items[ret'.tx].attempts + 1
                /\ items'[ret'.tx].attempts <= max_retries
          /\ items'[ret'.tx].attempts <= max_retries + 1
          /\ ret'.via = "run_all" =>
                ret'.count <=
                    Cardinality(DOMAIN items) * (max_retries + 1)]_vars

\* One run_all executed the only transaction of the queue max_retries + 1
\* times, each retry being due again at its now, and returned: the
\* transaction is Failed after its last attempt.
C39_Witness ==
    /\ RunAllReturned
    /\ ~ret.ok
    /\ ret.limit = 1000
    /\ ret.count = max_retries + 1
    /\ DOMAIN items = {"t1"}
    /\ items["t1"].status = FAILED
    /\ items["t1"].attempts = max_retries + 1

====
